---- MODULE Spec2Model ----
(***************************************************************************)
(* A model of the ONC assistant: the chat session cache, the Web API's     *)
(* user / chat / message collections, the ONC API client's rate limiter,   *)
(* the pipeline orchestrator (setup, query, add_documents), the ocean      *)
(* response formatting, the date resolution of the parameter extractor and *)
(* the query router's three-tier decision chain.                           *)
(*                                                                         *)
(* Each subsystem has its own variables and its own specification; a       *)
(* subsystem that is not part of a specification stays in its parked       *)
(* (initial) state.                                                        *)
(***************************************************************************)
EXTENDS Integers, Sequences, FiniteSets, TLC

VARIABLES
    \* ---- chat session cache (src/src/cache/chat_cache.py)
    redis_list,      \* key -> list of encoded entries (an absent key is the empty list)
    redis_ttl,       \* key -> remaining seconds; NoKey when the key is absent, NoExpiry when it has none
    cache_log,       \* key -> every entry saved since the key was last absent (history variable)
    cache_last,      \* the last cache operation, [op, user]
    \* ---- users collection and signup requests (src/backend/app/routes/auth.py)
    users,           \* the users collection: a set of user documents
    signup_pc,       \* request -> where the signup handler stands
    signup_req,      \* request -> the UserCreate body it carries
    signup_resp,     \* request -> the response it got
    \* ---- chats and messages collections (src/backend/app/routes/chat_history.py, message_routes.py)
    chats,           \* the chats collection: a set of chat documents
    messages,        \* the messages collection: a set of message documents
    next_oid,        \* the next ObjectId the store generates
    web_now,         \* the server clock of the Web API
    chat_resp,       \* the last response of a chat / message route
    \* ---- ONC API client (src/src/database_search/onc_api_client.py), times in milliseconds
    api_clock,            \* time.time()
    last_request_time,    \* ONCAPIClient.last_request_time
    api_call,             \* the last _make_request call: its number, outcome, the time its HTTP
                          \* request was issued, the time it returned and the time the call
                          \* before it returned
    \* ---- query router (src/src/query_routing/router.py)
    router,               \* the QueryRouter object: constructed, use_bert_routing, use_llm_routing
    route_call,           \* the last route_query call: its arguments, the tiers it attempted in
                          \* order, the tiers that raised, and the decision it returned
    \* ---- pipeline orchestrator (src/src/api/pipeline.py) and conversation manager
    \*      (src/src/conversation/manager.py)
    pipeline,             \* the ONCPipeline object: its flags and which components it holds
    documents,            \* ONCPipeline.documents
    vector_index,         \* the documents of the persistent vector index
    conversation_history, \* ConversationManager.conversation_history
    conversation_log,     \* every message added since the manager was constructed or cleared
    pipeline_call,        \* the last pipeline operation: its name, inputs and result
    \* ---- parameter extractor (src/src/database_search/enhanced_parameter_extractor.py)
    extractor_now,        \* datetime.now().date() of the request being handled
    parse_call,           \* the last _parse_specific_date call: its reference and its result
    \* ---- ocean query system (src/src/database_search/ocean_query_system.py)
    ocean_query_system,   \* the OceanQuerySystem object: constructed, with an enhanced formatter
    format_call,          \* the last format_enhanced_response call: its inputs and its text
    \* ---- login and admin statistics (src/backend/app/routes/auth.py, service_auth.py)
    auth_now,             \* datetime.utcnow() of the Web API, in minutes
    tokens,               \* the JWTs login has issued
    stats_call,           \* the last get_admin_stats request: its header, status and body
    \* ---- ONC API client, data search (src/src/database_search/onc_api_client.py)
    search_call,          \* the last get_devices / search_data call: what the API answered,
                          \* the requests made and the result
    \* ---- parameter extractor, validation
    \*      (src/src/database_search/enhanced_parameter_extractor.py)
    onc_codes,            \* the loaded catalog: location_devices and device_properties
    extract_call,          \* the last _validate_and_enhance call: its inputs and its result
    \* ---- admin bootstrap script (src/backend/create_admin.py)
    bootstrap_call,   \* the last create_admin_account run: what it found and what it did
    \* ---- concurrent chat requests (delete_chat against create_message)
    delete_req,   \* the delete_chat request in flight: its chat id and how far it got
    create_reqs,   \* the create_message requests in flight: their bodies and how far each got
    \* ---- concurrent cache writers and readers (save_chat against get_chat_history)
    savers,   \* the save_chat calls in flight: their user and how far each got
    history_read,   \* what the last get_chat_history call returned
    \* ---- conversation manager: loading a saved conversation (src/src/conversation/manager.py)
    manager,   \* the fields of a ConversationManager
    load_call,   \* the last load_conversation call: its number and what it returned
    \* ---- POST /query and the pipeline subprocess it runs (src/backend/app/routes/api.py)
    request,   \* the POST /query request being served: its text and its response
    process,   \* the pipeline subprocess of the request: its position, output and exit status
    \* ---- configuration manager of the pipeline (src/src/config/settings.py)
    config   \* the vector_store section of the configuration: as the file gave it and as it is stored now

cacheVars == <<redis_list, redis_ttl, cache_log, cache_last>>

authVars == <<users, signup_pc, signup_req, signup_resp>>

chatVars == <<chats, messages, next_oid, web_now, chat_resp>>

apiVars == <<api_clock, last_request_time, api_call>>

routerVars == <<router, route_call>>

pipelineVars ==
    <<pipeline, documents, vector_index, conversation_history, conversation_log, pipeline_call>>

dateVars == <<extractor_now, parse_call>>

formatVars == <<ocean_query_system, format_call>>

adminVars == <<auth_now, tokens, stats_call>>

searchVars == <<search_call>>

extractVars == <<onc_codes, extract_call>>

bootstrapVars == <<bootstrap_call>>

raceVars == <<delete_req, create_reqs>>

saveVars == <<savers, history_read>>

loadVars == <<manager, load_call>>

endpointVars == <<request, process>>

configVars == <<config>>

vars ==
    <<cacheVars, authVars, chatVars, apiVars, routerVars, pipelineVars, dateVars, formatVars,
      adminVars, searchVars, extractVars,
      bootstrapVars,
      raceVars,
      saveVars,
      loadVars,
      endpointVars,
      configVars>>

\* What the actions of one subsystem leave alone.
cacheOthers == <<authVars, chatVars, apiVars, routerVars, pipelineVars,
    dateVars, formatVars, adminVars, searchVars, extractVars,
      bootstrapVars,
      raceVars,
      saveVars,
      loadVars,
      endpointVars,
      configVars>>

authOthers == <<cacheVars, chatVars, apiVars, routerVars, pipelineVars,
    dateVars, formatVars, adminVars, searchVars, extractVars,
      bootstrapVars,
      raceVars,
      saveVars,
      loadVars,
      endpointVars,
      configVars>>

chatOthers == <<cacheVars, authVars, apiVars, routerVars, pipelineVars,
    dateVars, formatVars, adminVars, searchVars, extractVars,
      bootstrapVars,
      raceVars,
      saveVars,
      loadVars,
      endpointVars,
      configVars>>

apiOthers == <<cacheVars, authVars, chatVars, routerVars, pipelineVars,
    dateVars, formatVars, adminVars, searchVars, extractVars,
      bootstrapVars,
      raceVars,
      saveVars,
      loadVars,
      endpointVars,
      configVars>>

routerOthers == <<cacheVars, authVars, chatVars, apiVars, pipelineVars,
    dateVars, formatVars, adminVars, searchVars, extractVars,
      bootstrapVars,
      raceVars,
      saveVars,
      loadVars,
      endpointVars,
      configVars>>

\* The pipeline owns a router, so its actions leave the other subsystems alone.
pipelineOthers ==
    <<cacheVars, authVars, chatVars, apiVars, dateVars, formatVars, adminVars, searchVars,
      extractVars,
      bootstrapVars,
      raceVars,
      saveVars,
      loadVars,
      endpointVars,
      configVars>>

Max(a, b) == IF a >= b THEN a ELSE b

Min(a, b) == IF a <= b THEN a ELSE b

(***************************************************************************)
(* Chat session cache                                                      *)
(***************************************************************************)

MAX_HISTORY_LENGTH == 50

SESSION_TTL_SECONDS == 43200

\* How many save_chat calls one key sees before it expires or is deleted.
MaxSaves == 52

\* The clock step of the cache: half of the session TTL.
TickSeconds == 21600

CacheUsers == {"u1", "u2"}

NoKey == -2

NoExpiry == -1

\* The callers' roles: the n-th entry of a session is a user turn or an assistant turn.
RoleOf(n) == IF n % 2 = 1 THEN "user" ELSE "assistant"

ValidRole(role) == role \in {"user", "assistant"}

\* json.dumps(entry): the stored form of an entry.
JsonDumps(entry) == <<"json", entry.role, entry.message>>

\* RPUSH key value
RPush(list, value) == Append(list, value)

\* A trim that keeps the head of the list instead of its tail.
LTrimKeepsHead(list, start, stop) ==
    SubSeq(list, 1, Min(Len(list), IF start < 0 THEN -start ELSE Len(list)))

\* LTRIM key start stop (0-based, inclusive): negative indexes count from the
\* tail, out-of-range ones are clamped.
LTrim(list, start, stop) ==
    LET len == Len(list)
        s == IF start < 0 THEN Max(len + start, 0) ELSE start
        e == IF stop < 0 THEN len + stop ELSE Min(stop, len - 1)
    IN  IF s > e THEN <<>> ELSE SubSeq(list, s + 1, e + 1)

\* EXPIRE key seconds: sets the time to live of an existing key.
Expire(ttl, exists, seconds) == IF exists THEN seconds ELSE ttl

CacheInit ==
    /\ redis_list = [u \in CacheUsers |-> <<>>]
    /\ redis_ttl = [u \in CacheUsers |-> NoKey]
    /\ cache_log = [u \in CacheUsers |-> <<>>]
    /\ cache_last = [op |-> "none", user |-> "none"]

\* save_chat(user_id, role, message) with a valid role: rpush, ltrim, expire.
SaveChat(u) ==
    /\ Len(cache_log[u]) < MaxSaves
    /\ LET n == Len(cache_log[u]) + 1
           entry == [role |-> RoleOf(n), message |-> n]
           pushed == RPush(redis_list[u], JsonDumps(entry))
           list == LTrim(pushed, -MAX_HISTORY_LENGTH, -1)
           ttl == IF redis_ttl[u] = NoKey THEN NoExpiry ELSE redis_ttl[u]
       IN  /\ ValidRole(entry.role)
           /\ redis_list' = [redis_list EXCEPT ![u] = list]
           /\ redis_ttl' = [redis_ttl EXCEPT ![u] =
                                Expire(ttl, Len(list) > 0, SESSION_TTL_SECONDS)]
           /\ cache_log' = [cache_log EXCEPT ![u] = Append(@, JsonDumps(entry))]
    /\ cache_last' = [op |-> "save_chat", user |-> u]
    /\ UNCHANGED cacheOthers

\* save_chat with a role that is neither user nor assistant: the ValueError is
\* caught and logged, nothing is written.
SaveChatInvalidRole(u) ==
    /\ ~ValidRole("system")
    /\ cache_last' = [op |-> "save_chat_rejected", user |-> u]
    /\ UNCHANGED <<redis_list, redis_ttl, cache_log>>
    /\ UNCHANGED cacheOthers

\* delete_session_chats(user_id)
DeleteSessionChats(u) ==
    /\ redis_list' = [redis_list EXCEPT ![u] = <<>>]
    /\ redis_ttl' = [redis_ttl EXCEPT ![u] = NoKey]
    /\ cache_log' = [cache_log EXCEPT ![u] = <<>>]
    /\ cache_last' = [op |-> "delete_session_chats", user |-> u]
    /\ UNCHANGED cacheOthers

\* Time passes: every key's time to live shrinks, and a key whose time is up is removed.
CacheTick ==
    /\ \E u \in CacheUsers : redis_ttl[u] > 0
    /\ LET left(u) == redis_ttl[u] - TickSeconds
           gone(u) == redis_ttl[u] >= 0 /\ left(u) <= 0
       IN  /\ redis_ttl' = [u \in CacheUsers |->
                               IF gone(u) THEN NoKey
                               ELSE IF redis_ttl[u] >= 0 THEN left(u) ELSE redis_ttl[u]]
           /\ redis_list' = [u \in CacheUsers |-> IF gone(u) THEN <<>> ELSE redis_list[u]]
           /\ cache_log' = [u \in CacheUsers |-> IF gone(u) THEN <<>> ELSE cache_log[u]]
    /\ cache_last' = [op |-> "tick", user |-> "none"]
    /\ UNCHANGED cacheOthers

NextCache ==
    \/ \E u \in CacheUsers : SaveChat(u)
    \/ \E u \in CacheUsers : SaveChatInvalidRole(u)
    \/ \E u \in CacheUsers : DeleteSessionChats(u)
    \/ CacheTick

\* The last k elements of a sequence.
LastN(seq, k) == SubSeq(seq, Len(seq) - k + 1, Len(seq))

\* C5: after n sequential save_chat calls with valid roles on a key that started
\* absent (no expiry or deletion in between), the cached list is exactly the last
\* min(n, 50) saved entries in their original order, and right after every such
\* write the key's time to live is 43200 seconds.
C5_CacheKeepsLast50WithTtl ==
    /\ \A u \in CacheUsers :
          redis_list[u] = LastN(cache_log[u], Min(Len(cache_log[u]), MAX_HISTORY_LENGTH))
    /\ cache_last.op = "save_chat" => redis_ttl[cache_last.user] = SESSION_TTL_SECONDS

\* More than 50 entries were saved for one key, the last operation was a save, and
\* the oldest entries are gone.
C5_Witness ==
    \E u \in CacheUsers :
        /\ cache_last = [op |-> "save_chat", user |-> u]
        /\ Len(cache_log[u]) > MAX_HISTORY_LENGTH
        /\ Len(redis_list[u]) = MAX_HISTORY_LENGTH
        /\ redis_list[u][1] = cache_log[u][Len(cache_log[u]) - MAX_HISTORY_LENGTH + 1]
        /\ redis_list[u][1] # cache_log[u][1]

(***************************************************************************)
(* Chat session cache: concurrent callers                                  *)
(***************************************************************************)

saveOthers ==
    <<authVars, chatVars, apiVars, routerVars, pipelineVars, dateVars, formatVars,
      adminVars, searchVars, extractVars, bootstrapVars, raceVars,
      loadVars,
      endpointVars,
      configVars>>

\* How many save_chat calls run concurrently.
MaxSavers == 2

Savers == 1..MaxSavers

\* The user whose key the concurrent callers share.
SharedUser == "u1"

SaveInit ==
    /\ savers = [s \in Savers |-> "idle"]
    /\ history_read = [called |-> FALSE, history |-> <<>>]

\* ast.literal_eval(entry): the dictionary a stored entry denotes.
LiteralEval(raw) == [role |-> raw[2], message |-> raw[3]]

\* save_chat up to redis_client.rpush; RPUSH creates the key when it is absent.
SaveChatRPush(s) ==
    /\ savers[s] = "idle"
    /\ Len(cache_log[SharedUser]) < MaxSaves
    /\ LET n == Len(cache_log[SharedUser]) + 1
           entry == [role |-> RoleOf(n), message |-> n]
       IN  /\ ValidRole(entry.role)
           /\ redis_list' = [redis_list EXCEPT ![SharedUser] = RPush(@, JsonDumps(entry))]
           /\ redis_ttl' = [redis_ttl EXCEPT ![SharedUser] = IF @ = NoKey THEN NoExpiry ELSE @]
           /\ cache_log' = [cache_log EXCEPT ![SharedUser] = Append(@, JsonDumps(entry))]
    /\ savers' = [savers EXCEPT ![s] = "pushed"]
    /\ cache_last' = [op |-> "rpush", user |-> SharedUser]
    /\ UNCHANGED history_read
    /\ UNCHANGED saveOthers

\* save_chat: redis_client.ltrim(key, -MAX_HISTORY_LENGTH, -1)
SaveChatLTrim(s) ==
    /\ savers[s] = "pushed"
    /\ redis_list' = [redis_list EXCEPT ![SharedUser] = LTrim(@, -MAX_HISTORY_LENGTH, -1)]
    /\ savers' = [savers EXCEPT ![s] = "trimmed"]
    /\ cache_last' = [op |-> "ltrim", user |-> SharedUser]
    /\ UNCHANGED <<redis_ttl, cache_log, history_read>>
    /\ UNCHANGED saveOthers

\* save_chat: redis_client.expire(key, SESSION_TTL_SECONDS), and the return
SaveChatExpire(s) ==
    /\ savers[s] = "trimmed"
    /\ redis_ttl' = [redis_ttl EXCEPT ![SharedUser] =
                        Expire(@, Len(redis_list[SharedUser]) > 0, SESSION_TTL_SECONDS)]
    /\ savers' = [savers EXCEPT ![s] = "idle"]
    /\ cache_last' = [op |-> "save_chat", user |-> SharedUser]
    /\ UNCHANGED <<redis_list, cache_log, history_read>>
    /\ UNCHANGED saveOthers

\* get_chat_history(user_id): lrange(key, 0, -1) and the entries it denotes
GetChatHistory ==
    /\ history_read' =
           [called |-> TRUE,
            history |-> [i \in 1..Len(redis_list[SharedUser]) |->
                            LiteralEval(redis_list[SharedUser][i])]]
    /\ cache_last' = [op |-> "get_chat_history", user |-> SharedUser]
    /\ UNCHANGED <<redis_list, redis_ttl, cache_log, savers>>
    /\ UNCHANGED saveOthers

NextSave ==
    \/ \E s \in Savers : SaveChatRPush(s)
    \/ \E s \in Savers : SaveChatLTrim(s)
    \/ \E s \in Savers : SaveChatExpire(s)
    \/ GetChatHistory

\* C24: under any interleaving of the rpush, ltrim and expire steps of
\* concurrent save_chat calls with get_chat_history calls for the same user,
\* get_chat_history never returns more than 50 entries, and whenever no
\* save_chat is in progress the stored list holds at most 50 entries.
C24_NeverMoreThan50Entries ==
    /\ Len(history_read.history) <= MAX_HISTORY_LENGTH
    /\ (\A s \in Savers : savers[s] = "idle") =>
           Len(redis_list[SharedUser]) <= MAX_HISTORY_LENGTH

\* What holds of the code: the list exceeds 50 entries by at most the number of
\* save_chat calls between their rpush and their ltrim, and so does what
\* get_chat_history returns.
AtMost50PlusUntrimmedEntries ==
    /\ Len(redis_list[SharedUser])
          <= MAX_HISTORY_LENGTH + Cardinality({s \in Savers : savers[s] = "pushed"})
    /\ Len(history_read.history) <= MAX_HISTORY_LENGTH + MaxSavers

(***************************************************************************)
(* Users collection and signup                                             *)
(***************************************************************************)

\* Concurrent signup requests in flight.
MaxSignups == 3

SignupRequests == 1..MaxSignups

NoToken == "none"

DEFAULT_ONC_TOKEN == "your-dev-token"

NoRequest == [username |-> "none", email |-> "none", password |-> "none",
              onc_token |-> NoToken, is_indigenous |-> FALSE, role |-> "none"]

NoResponse == [status |-> 0, id |-> 0]

UserCreate ==
    { [username |-> n, email |-> e, password |-> "pw", onc_token |-> t,
       is_indigenous |-> FALSE, role |-> "general"] :
          n \in {"alice", "bob"}, e \in {"a@onc.ca", "b@onc.ca"}, t \in {NoToken, "tok-1"} }

\* users_collection.find_one({field: value}) finds a document or nothing.
FindOneUser(coll, field, value) == \E u \in coll : u[field] = value

\* The document signup builds from the request body (the password is stored hashed).
UserDict(req, id) ==
    [id |-> id,
     username |-> req.username,
     email |-> req.email,
     hashed_password |-> <<"bcrypt", req.password>>,
     onc_token |-> IF req.onc_token # NoToken THEN req.onc_token ELSE DEFAULT_ONC_TOKEN,
     is_indigenous |-> req.is_indigenous,
     role |-> req.role]

AuthInit ==
    /\ users = {}
    /\ signup_pc = [r \in SignupRequests |-> "idle"]
    /\ signup_req = [r \in SignupRequests |-> NoRequest]
    /\ signup_resp = [r \in SignupRequests |-> NoResponse]

\* POST /signup arrives; the handler awaits find_one({"username": ...}).
SignupFindUsername(r, body) ==
    /\ signup_pc[r] = "idle"
    /\ signup_req' = [signup_req EXCEPT ![r] = body]
    /\ IF FindOneUser(users, "username", body.username)
       THEN /\ signup_pc' = [signup_pc EXCEPT ![r] = "done"]
            /\ signup_resp' = [signup_resp EXCEPT ![r] = [status |-> 400, id |-> 0]]
       ELSE /\ signup_pc' = [signup_pc EXCEPT ![r] = "find_email"]
            /\ UNCHANGED signup_resp
    /\ UNCHANGED users
    /\ UNCHANGED authOthers

\* The handler resumes and awaits find_one({"email": ...}).
SignupFindEmail(r) ==
    /\ signup_pc[r] = "find_email"
    /\ IF FindOneUser(users, "email", signup_req[r].email)
       THEN /\ signup_pc' = [signup_pc EXCEPT ![r] = "done"]
            /\ signup_resp' = [signup_resp EXCEPT ![r] = [status |-> 400, id |-> 0]]
       ELSE /\ signup_pc' = [signup_pc EXCEPT ![r] = "insert"]
            /\ UNCHANGED signup_resp
    /\ UNCHANGED <<users, signup_req>>
    /\ UNCHANGED authOthers

\* The handler resumes, builds the document and awaits insert_one, which gives
\* the document an id no other document of the collection has.
SignupInsert(r) ==
    /\ signup_pc[r] = "insert"
    /\ LET id == Cardinality(users) + 1
       IN  /\ users' = users \cup {UserDict(signup_req[r], id)}
           /\ signup_resp' = [signup_resp EXCEPT ![r] = [status |-> 200, id |-> id]]
    /\ signup_pc' = [signup_pc EXCEPT ![r] = "done"]
    /\ UNCHANGED signup_req
    /\ UNCHANGED authOthers

NextAuth ==
    \/ \E r \in SignupRequests, body \in UserCreate : SignupFindUsername(r, body)
    \/ \E r \in SignupRequests : SignupFindEmail(r)
    \/ \E r \in SignupRequests : SignupInsert(r)

\* C3: under any interleaving of concurrent signup requests no two user records
\* share a username and no two share an email.
C3_UniqueUsernameAndEmail ==
    \A a, b \in users :
        a.id # b.id => a.username # b.username /\ a.email # b.email

(***************************************************************************)
(* Login and admin statistics                                              *)
(***************************************************************************)

adminOthers ==
    <<cacheVars, authVars, chatVars, apiVars, routerVars, pipelineVars, dateVars, formatVars,
      searchVars, extractVars,
      bootstrapVars,
      raceVars,
      saveVars,
      loadVars,
      endpointVars,
      configVars>>

TOKEN_EXPIRE_MIN == 1440

\* The minutes that pass between two requests, and how often they pass.
TickMinutes == 720

MaxTicks == 3

\* How many tokens login issues.
MaxTokens == 2

\* The users that sign up in the runs that look at the statistics.
AdminUserCreate ==
    { [username |-> "alice", email |-> "a@onc.ca", password |-> "pw", onc_token |-> NoToken,
       is_indigenous |-> FALSE, role |-> "admin"],
      [username |-> "bob", email |-> "b@onc.ca", password |-> "pw", onc_token |-> NoToken,
       is_indigenous |-> FALSE, role |-> "general"] }

\* create_jwt(data): the claims with their expiry, signed with SECRET_KEY.
CreateJwt(sub, role, now) ==
    [sub |-> sub, role |-> role, exp |-> now + TOKEN_EXPIRE_MIN, key |-> "SECRET_KEY"]

\* The empty string after "Bearer ", and tokens signed with another key.
EmptyToken == [sub |-> "", role |-> "", exp |-> 0, key |-> "none"]

ForgedTokens ==
    {[sub |-> "mallory", role |-> "admin", exp |-> MaxTicks * TickMinutes + TOKEN_EXPIRE_MIN,
      key |-> "other-key"]}

\* verify_jwt(token): the payload, or None (FALSE) when the signature or the
\* expiry check fails.
VerifyJwt(token, now) == token.key = "SECRET_KEY" /\ token.exp >= now

\* The Authorization headers a client sends: none, an empty one, and a scheme
\* with a token.
NoHeader == [present |-> FALSE, scheme |-> "", token |-> EmptyToken]

Headers ==
    {NoHeader, [present |-> TRUE, scheme |-> "", token |-> EmptyToken]}
    \cup [present : {TRUE}, scheme : {"Bearer", "Basic"},
          token : tokens \cup ForgedTokens \cup {EmptyToken}]

\* extract_token_from_header(authorization): the token after "Bearer ", or
\* None (EmptyToken, as falsy as the empty string).
ExtractTokenFromHeader(authorization) ==
    IF authorization.present /\ authorization.scheme = "Bearer"
    THEN authorization.token
    ELSE EmptyToken

NoStats == [total_users |-> 0, admin_users |-> 0, regular_users |-> 0]

NoStatsCall == [called |-> FALSE, header |-> NoHeader, at |-> 0, status |-> 0, body |-> NoStats]

AdminInit ==
    /\ auth_now = 0
    /\ tokens = {}
    /\ stats_call = NoStatsCall

\* POST /login: a token for the user's name and role, or 401.
Login(username, password) ==
    /\ Cardinality(tokens) < MaxTokens
    /\ LET found == {user \in users : /\ user.username = username
                                      /\ user.hashed_password = <<"bcrypt", password>>}
       IN  tokens' = tokens \cup {CreateJwt(user.username, user.role, auth_now) : user \in found}
    /\ UNCHANGED <<auth_now, stats_call>>
    /\ UNCHANGED adminOthers

AdminTick ==
    /\ auth_now < MaxTicks * TickMinutes
    /\ auth_now' = auth_now + TickMinutes
    /\ UNCHANGED <<tokens, stats_call>>
    /\ UNCHANGED adminOthers

\* A statistics endpoint that does not look at the role claim.
GetAdminStatsAnyRole(authorization) ==
    /\ LET token == ExtractTokenFromHeader(authorization)
           total_users == Cardinality(users)
           admin_users == Cardinality({u \in users : u.role = "admin"})
           Answer(status, body) ==
               stats_call' = [called |-> TRUE, header |-> authorization, at |-> auth_now,
                              status |-> status, body |-> body]
       IN  IF ~authorization.present \/ authorization.scheme = "" THEN Answer(401, NoStats)
           ELSE IF token = EmptyToken THEN Answer(401, NoStats)
           ELSE IF ~VerifyJwt(token, auth_now) THEN Answer(401, NoStats)
           ELSE Answer(200, [total_users |-> total_users, admin_users |-> admin_users,
                             regular_users |-> total_users - admin_users])
    /\ UNCHANGED <<auth_now, tokens>>
    /\ UNCHANGED adminOthers

\* GET /admin/stats
GetAdminStats(authorization) ==
    /\ LET token == ExtractTokenFromHeader(authorization)
           total_users == Cardinality(users)
           admin_users == Cardinality({u \in users : u.role = "admin"})
           Answer(status, body) ==
               stats_call' = [called |-> TRUE, header |-> authorization, at |-> auth_now,
                              status |-> status, body |-> body]
       IN  IF ~authorization.present \/ authorization.scheme = "" THEN Answer(401, NoStats)
           ELSE IF token = EmptyToken THEN Answer(401, NoStats)
           ELSE IF ~VerifyJwt(token, auth_now) THEN Answer(401, NoStats)
           ELSE IF token.role # "admin" THEN Answer(403, NoStats)
           ELSE Answer(200, [total_users |-> total_users, admin_users |-> admin_users,
                             regular_users |-> total_users - admin_users])
    /\ UNCHANGED <<auth_now, tokens>>
    /\ UNCHANGED adminOthers

NextAdmin ==
    \/ \E r \in {1, 2}, body \in AdminUserCreate : SignupFindUsername(r, body)
    \/ \E r \in {1, 2} : SignupFindEmail(r)
    \/ \E r \in {1, 2} : SignupInsert(r)
    \/ \E username \in {"alice", "bob"}, password \in {"pw", "guess"} : Login(username, password)
    \/ AdminTick
    \/ \E authorization \in Headers : GetAdminStats(authorization)

\* C15: get_admin_stats answers 401 without an Authorization header, with a
\* header that carries no Bearer token, and with a token whose signature or
\* expiry check fails; 403 with a valid token whose role is not admin; and the
\* statistics, in which admin_users + regular_users = total_users, only with
\* a valid, unexpired admin token.  No other request receives user data.
C15_AdminStatsDecision ==
    stats_call.called =>
        LET h == stats_call.header
            bearer == h.present /\ h.scheme = "Bearer" /\ h.token # EmptyToken
            valid == bearer /\ h.token.key = "SECRET_KEY" /\ stats_call.at <= h.token.exp
        IN  /\ ~valid => stats_call.status = 401
            /\ (valid /\ h.token.role # "admin") => stats_call.status = 403
            /\ (valid /\ h.token.role = "admin") =>
                  /\ stats_call.status = 200
                  /\ stats_call.body.admin_users + stats_call.body.regular_users
                        = stats_call.body.total_users
            /\ stats_call.status # 200 => stats_call.body = NoStats

\* A request with the unexpired token of a user who is no admin, answered 403
\* while there are users to count.
C15_Witness ==
    /\ stats_call.called
    /\ stats_call.status = 403
    /\ stats_call.header.token \in tokens
    /\ stats_call.header.token.role = "general"
    /\ users # {}

(***************************************************************************)
(* Admin bootstrap                                                         *)
(***************************************************************************)

bootstrapOthers ==
    <<cacheVars, chatVars, apiVars, routerVars, pipelineVars, dateVars, formatVars,
      adminVars, searchVars, extractVars,
      raceVars,
      saveVars,
      loadVars,
      endpointVars,
      configVars>>

\* How often the bootstrap script is run.
MaxBootstraps == 2

\* admin_data of create_admin_account
admin_data ==
    [username |-> "admin", email |-> "admin@oncai.com", password |-> "admin123",
     onc_token |-> "admin-dev-token", is_indigenous |-> FALSE, role |-> "admin"]

\* The users that sign up in the runs that look at the bootstrap.
BootstrapUserCreate ==
    { [username |-> n, email |-> e, password |-> "pw", onc_token |-> NoToken,
       is_indigenous |-> FALSE, role |-> "general"] :
          n \in {"admin", "carol"}, e \in {"admin@oncai.com", "c@onc.ca"} }

BootstrapInit ==
    bootstrap_call = [runs |-> 0, username_existed |-> FALSE, email_existed |-> FALSE,
                      result |-> "none"]

\* create_admin_account(): one run of the script, from its find_one to its insert_one.
CreateAdminAccount ==
    /\ bootstrap_call.runs < MaxBootstraps
    /\ LET existing_admin == FindOneUser(users, "username", admin_data.username)
       IN  /\ users' = IF existing_admin THEN users
                       ELSE users \cup {UserDict(admin_data, Cardinality(users) + 1)}
           /\ bootstrap_call' =
                  [runs |-> bootstrap_call.runs + 1,
                   username_existed |-> existing_admin,
                   email_existed |-> FindOneUser(users, "email", admin_data.email),
                   result |-> IF existing_admin THEN "refused" ELSE "created"]
    /\ UNCHANGED <<signup_pc, signup_req, signup_resp>>
    /\ UNCHANGED bootstrapOthers

\* Signups and bootstrap runs taken one after the other: a signup starts when no
\* other signup is under way, and the script runs between signups.
NoSignupUnderWay == \A r \in SignupRequests : signup_pc[r] \in {"idle", "done"}

NextBootstrap ==
    \/ \E r \in SignupRequests, body \in BootstrapUserCreate :
          NoSignupUnderWay /\ SignupFindUsername(r, body) /\ UNCHANGED bootstrapVars
    \/ \E r \in SignupRequests : SignupFindEmail(r) /\ UNCHANGED bootstrapVars
    \/ \E r \in SignupRequests : SignupInsert(r) /\ UNCHANGED bootstrapVars
    \/ NoSignupUnderWay /\ CreateAdminAccount

\* C21: a run of create_admin_account that finds a user named "admin" or a user
\* with the email "admin@oncai.com" inserts nothing and reports the refusal, and
\* after any sequence of runs and signups at most one user has that name and at
\* most one has that email.
C21_BootstrapRefusesTakenNameOrEmail ==
    /\ (bootstrap_call.username_existed \/ bootstrap_call.email_existed)
          => bootstrap_call.result = "refused"
    /\ Cardinality({u \in users : u.username = admin_data.username}) <= 1
    /\ Cardinality({u \in users : u.email = admin_data.email}) <= 1

\* What holds of the code: the run refuses exactly when the name is taken, and at
\* most one user has that name.
BootstrapRefusesTakenName ==
    /\ bootstrap_call.runs > 0 =>
          (bootstrap_call.username_existed <=> bootstrap_call.result = "refused")
    /\ Cardinality({u \in users : u.username = admin_data.username}) <= 1

(***************************************************************************)
(* Chats and messages collections                                          *)
(***************************************************************************)

\* How many documents the store creates in one run.
MaxOids == 3

SUMMARY_LIMIT == 100

\* A text of n characters ch.
MakeText(n, ch) == [i \in 1..n |-> ch]

Texts == {MakeText(3, "a"), MakeText(SUMMARY_LIMIT, "b"), MakeText(SUMMARY_LIMIT + 1, "c")}

\* str(ObjectId): the 24-digit hexadecimal string of a generated id.
OidStr(n) == <<"hex", n>>

\* The id strings a client sends: two well-formed ones (each names a chat, a
\* message or nothing, as the run goes), and one that is no ObjectId string.
MalformedId == <<"not-hex", 0>>

IdStrings == {OidStr(1), OidStr(2), MalformedId}

InvalidId == 0

\* bson.ObjectId(s): the id a well-formed string names; InvalidId is raised otherwise.
ObjectId(s) == IF s[1] = "hex" THEN s[2] ELSE InvalidId

NoChatResponse == [op |-> "none", status |-> 0, arg |-> MalformedId, id |-> 0, deleted |-> 0]

ChatResponse(op, status, arg, id, deleted) ==
    [op |-> op, status |-> status, arg |-> arg, id |-> id, deleted |-> deleted]

\* messages_collection.delete_many({"chat_id": chat_id})
DeleteManyMessages(coll, chat_id) == {m \in coll : m.chat_id # chat_id}

\* chats_collection.delete_one({"_id": oid}); ids are unique, so at most one document matches.
DeleteOneChat(coll, oid) == {c \in coll : c.id # oid}

\* chats_collection.update_one({"_id": oid}, {"$set": update_data})
UpdateOneChat(coll, oid, summary, ts) ==
    {IF c.id = oid THEN [c EXCEPT !.summary = summary, !.last_timestamp = ts] ELSE c : c \in coll}

MatchedCount(coll, oid) == Cardinality({c \in coll : c.id = oid})

\* A summary that also marks a text of exactly 100 characters as truncated.
SummaryEllipsisFrom100(text) ==
    SubSeq(text, 1, Min(Len(text), 100)) \o (IF Len(text) >= 100 THEN <<".", ".", ".">> ELSE <<>>)

\* data["text"][:100] + ("..." if len(data["text"]) > 100 else "")
Summary(text) ==
    SubSeq(text, 1, Min(Len(text), 100)) \o (IF Len(text) > 100 THEN <<".", ".", ".">> ELSE <<>>)

RequiredKeys == {"text", "chat_id", "user_id"}

\* The bodies POST /api/messages receives: every key present, or one key missing.
MessageBodies ==
    { [keys |-> RequiredKeys, text |-> t, chat_id |-> c, user_id |-> "u1"] :
          t \in Texts, c \in IdStrings }
    \cup
    { [keys |-> RequiredKeys \ {x}, text |-> MakeText(3, "a"), chat_id |-> OidStr(1),
       user_id |-> "u1"] : x \in RequiredKeys }

ChatInit ==
    /\ chats = {}
    /\ messages = {}
    /\ next_oid = 1
    /\ web_now = 1
    /\ chat_resp = NoChatResponse

\* POST /api/chat-histories
CreateChat(summary, user_id) ==
    /\ next_oid <= MaxOids
    /\ chats' = chats \cup {[id |-> next_oid, summary |-> summary, user_id |-> user_id,
                              last_timestamp |-> web_now]}
    /\ next_oid' = next_oid + 1
    /\ web_now' = web_now + 1
    /\ chat_resp' = ChatResponse("create_chat", 200, OidStr(next_oid), next_oid, 0)
    /\ UNCHANGED messages
    /\ UNCHANGED chatOthers

\* POST /api/messages with a key missing: 400 before anything is written.
CreateMessageMissingKey(data) ==
    /\ ~(RequiredKeys \subseteq data.keys)
    /\ chat_resp' = ChatResponse("create_message", 400, MalformedId, 0, 0)
    /\ UNCHANGED <<chats, messages, next_oid, web_now>>
    /\ UNCHANGED chatOthers

\* POST /api/messages: insert the message, then update_chat(chat_id, {summary, last_timestamp}).
CreateMessage(data) ==
    /\ RequiredKeys \subseteq data.keys
    /\ next_oid <= MaxOids
    /\ messages' = messages \cup {[id |-> next_oid, chat_id |-> data.chat_id,
                                    user_id |-> data.user_id, text |-> data.text,
                                    rating |-> 0, timestamp |-> web_now]}
    /\ next_oid' = next_oid + 1
    /\ web_now' = web_now + 1
    /\ LET oid == ObjectId(data.chat_id)
       IN  IF oid = InvalidId
           THEN /\ chat_resp' = ChatResponse("create_message", 500, data.chat_id, 0, 0)
                /\ UNCHANGED chats
           ELSE IF MatchedCount(chats, oid) = 0
           THEN /\ chat_resp' = ChatResponse("create_message", 404, data.chat_id, 0, 0)
                /\ UNCHANGED chats
           ELSE /\ chats' = UpdateOneChat(chats, oid, Summary(data.text), web_now)
                /\ chat_resp' = ChatResponse("create_message", 200, data.chat_id, next_oid, 0)
    /\ UNCHANGED chatOthers

\* DELETE /api/chat-histories/{chat_id}
DeleteChat(chat_id) ==
    /\ LET oid == ObjectId(chat_id)
           left == DeleteManyMessages(messages, chat_id)
           kept == DeleteOneChat(chats, oid)
       IN  IF oid = InvalidId
           THEN /\ chat_resp' = ChatResponse("delete_chat", 500, chat_id, 0, 0)
                /\ UNCHANGED <<chats, messages>>
           ELSE /\ messages' = left
                /\ chats' = kept
                /\ chat_resp' = ChatResponse("delete_chat",
                                    IF Cardinality(chats) = Cardinality(kept)
                                    THEN 404 ELSE 200,
                                    chat_id, 0, Cardinality(messages) - Cardinality(left))
    /\ UNCHANGED <<next_oid, web_now>>
    /\ UNCHANGED chatOthers

\* The ratings a client sends.
Ratings == {-2, -1, 0, 1, 2}

\* messages_collection.update_one({"_id": oid}, {"$set": {"rating": rating}})
UpdateOneRating(coll, oid, rating) ==
    {IF m.id = oid THEN [m EXCEPT !.rating = rating] ELSE m : m \in coll}

RatingResponse(status, message_id, rating) ==
    [op |-> "update_message_rating", status |-> status, arg |-> message_id,
     id |-> ObjectId(message_id), deleted |-> 0, rating |-> rating]

\* An update that stores whatever rating it is sent.
UpdateMessageRatingUnchecked(message_id, rating) ==
    /\ LET oid == ObjectId(message_id)
       IN  IF oid = InvalidId
           THEN /\ chat_resp' = RatingResponse(500, message_id, rating)
                /\ UNCHANGED messages
           ELSE /\ messages' = UpdateOneRating(messages, oid, rating)
                /\ chat_resp' = RatingResponse(IF MatchedCount(messages, oid) = 0 THEN 404 ELSE 200,
                                               message_id, rating)
    /\ UNCHANGED <<chats, next_oid, web_now>>
    /\ UNCHANGED chatOthers

\* PUT /api/messages/{message_id}/rating
UpdateMessageRating(message_id, rating) ==
    /\ LET oid == ObjectId(message_id)
       IN  IF rating \notin {-1, 0, 1}
           THEN /\ chat_resp' = RatingResponse(400, message_id, rating)
                /\ UNCHANGED messages
           ELSE IF oid = InvalidId
           THEN /\ chat_resp' = RatingResponse(500, message_id, rating)
                /\ UNCHANGED messages
           ELSE /\ messages' = UpdateOneRating(messages, oid, rating)
                /\ chat_resp' = RatingResponse(IF MatchedCount(messages, oid) = 0 THEN 404 ELSE 200,
                                               message_id, rating)
    /\ UNCHANGED <<chats, next_oid, web_now>>
    /\ UNCHANGED chatOthers

NextChat ==
    \/ CreateChat(MakeText(2, "n"), "u1")
    \/ \E data \in MessageBodies : CreateMessageMissingKey(data)
    \/ \E data \in MessageBodies : CreateMessage(data)
    \/ \E s \in IdStrings : DeleteChat(s)

\* messages_collection.delete_one({"_id": oid}); ids are unique, so at most one document matches.
DeleteOneMessage(coll, oid) == {m \in coll : m.id # oid}

\* DELETE /api/messages/{message_id}
DeleteMessage(message_id) ==
    /\ LET oid == ObjectId(message_id)
           left == DeleteOneMessage(messages, oid)
       IN  IF oid = InvalidId
           THEN /\ chat_resp' = ChatResponse("delete_message", 500, message_id, 0, 0)
                /\ UNCHANGED messages
           ELSE /\ messages' = left
                /\ chat_resp' = ChatResponse("delete_message",
                                    IF Cardinality(left) = Cardinality(messages)
                                    THEN 404 ELSE 200,
                                    message_id, 0, Cardinality(messages) - Cardinality(left))
    /\ UNCHANGED <<chats, next_oid, web_now>>
    /\ UNCHANGED chatOthers

\* The requests of the runs that look at the messages of deleted and missing
\* chats: short messages, and every create and delete request.
OwnershipBodies == {data \in MessageBodies : data.text = MakeText(3, "a")}

NextOwnership ==
    \/ CreateChat(MakeText(2, "n"), "u1")
    \/ \E data \in OwnershipBodies : CreateMessageMissingKey(data)
    \/ \E data \in OwnershipBodies : CreateMessage(data)
    \/ \E s \in IdStrings : DeleteMessage(s)
    \/ \E s \in IdStrings : DeleteChat(s)

\* The requests of the runs that look at ratings: short messages for one chat
\* id, well-formed or not, and rating updates.
RatingBodies == {data \in MessageBodies : data.text = MakeText(3, "a") /\ data.chat_id # OidStr(2)}

NextRating ==
    \/ CreateChat(MakeText(2, "n"), "u1")
    \/ \E data \in RatingBodies : CreateMessageMissingKey(data)
    \/ \E data \in RatingBodies : CreateMessage(data)
    \/ \E message_id \in IdStrings, rating \in Ratings : UpdateMessageRating(message_id, rating)

\* Whether an id string names a chat of the collection.
NamesChat(coll, s) == \E c \in coll : OidStr(c.id) = s

\* C4: delete_chat(c) on an existing chat succeeds and leaves no message with
\* chat_id c and no chat c, every other chat and every message of another chat
\* unchanged; delete_chat on a chat id that names no chat yields 404.
C4_DeleteChatCascadeOr404 ==
    [][\A s \in IdStrings :
          (chat_resp'.op = "delete_chat" /\ chat_resp'.arg = s) =>
              IF NamesChat(chats, s)
              THEN /\ chat_resp'.status = 200
                   /\ ~NamesChat(chats', s)
                   /\ \A m \in messages' : m.chat_id # s
                   /\ chats' = {c \in chats : OidStr(c.id) # s}
                   /\ messages' = {m \in messages : m.chat_id # s}
              ELSE chat_resp'.status = 404]_vars

\* The part of C4 that holds of the code: the cascade on an existing chat, and 404
\* for a well-formed id that names no chat.
DeleteChatWellFormed ==
    [][\A s \in IdStrings :
          (chat_resp'.op = "delete_chat" /\ chat_resp'.arg = s /\ s # MalformedId) =>
              IF NamesChat(chats, s)
              THEN /\ chat_resp'.status = 200
                   /\ ~NamesChat(chats', s)
                   /\ \A m \in messages' : m.chat_id # s
                   /\ chats' = {c \in chats : OidStr(c.id) # s}
                   /\ messages' = {m \in messages : m.chat_id # s}
              ELSE chat_resp'.status = 404]_vars

\* C13: every stored message has a rating in {-1, 0, 1}: create_message stores
\* rating 0; update_message_rating with a rating in {-1, 0, 1} on an existing
\* message sets it to that rating and changes no other message; with any other
\* integer it is rejected with 400 and the stored messages are unchanged.
C13_RatingsStayValid ==
    [][/\ \A m \in messages' : m.rating \in {-1, 0, 1}
       /\ (chat_resp'.op = "create_message" /\ chat_resp'.status # 400) =>
              \E m \in messages' \ messages : m.rating = 0 /\ messages' = messages \cup {m}
       /\ chat_resp'.op = "update_message_rating" =>
              IF chat_resp'.rating \notin {-1, 0, 1}
              THEN chat_resp'.status = 400 /\ messages' = messages
              ELSE (\E m \in messages : OidStr(m.id) = chat_resp'.arg) =>
                      /\ chat_resp'.status = 200
                      /\ messages' = {IF OidStr(m.id) = chat_resp'.arg
                                      THEN [m EXCEPT !.rating = chat_resp'.rating]
                                      ELSE m : m \in messages}]_vars

\* A message rated -1 by the last request.
C13_Witness ==
    /\ chat_resp.op = "update_message_rating"
    /\ chat_resp.status = 200
    /\ chat_resp.rating = -1
    /\ \E m \in messages : m.id = chat_resp.id /\ m.rating = -1

\* C14: create_message for an existing parent chat sets that chat's summary to
\* the first 100 characters of the text followed by "..." when the text is
\* longer than 100 characters and to the text itself when it is not, sets the
\* chat's last_timestamp to the time of the request, and modifies no other
\* chat.
C14_SummaryOfLastMessage ==
    [][(chat_resp'.op = "create_message" /\ chat_resp'.status # 400
        /\ NamesChat(chats, chat_resp'.arg)) =>
          \E m \in messages' \ messages, c \in chats :
              /\ OidStr(c.id) = chat_resp'.arg
              /\ m.chat_id = chat_resp'.arg
              /\ chat_resp'.status = 200
              /\ LET expected ==
                         IF Len(m.text) > 100
                         THEN [i \in 1..103 |-> IF i <= 100 THEN m.text[i] ELSE "."]
                         ELSE m.text
                 IN  chats' = (chats \ {c})
                                 \cup {[c EXCEPT !.summary = expected, !.last_timestamp = web_now]}
              /\ web_now >= c.last_timestamp]_vars

\* A chat whose summary is the truncation of a message of 101 characters.
C14_Witness ==
    /\ chat_resp.op = "create_message"
    /\ chat_resp.status = 200
    /\ \E c \in chats, m \in messages :
          /\ OidStr(c.id) = chat_resp.arg /\ m.id = chat_resp.id
          /\ Len(m.text) = 101 /\ Len(c.summary) = 103
          /\ SubSeq(c.summary, 1, 100) = SubSeq(m.text, 1, 100)

\* C22: a create_message request answered with 400 or 404 leaves the messages
\* and the chats collection unchanged, and after any sequence of create_chat,
\* create_message, delete_message and delete_chat requests every stored
\* message's chat_id names an existing chat.
C22_FailedCreateMessageWritesNothing ==
    [][/\ (chat_resp'.op = "create_message" /\ chat_resp'.status \in {400, 404}) =>
              messages' = messages /\ chats' = chats
       /\ \A m \in messages' : NamesChat(chats', m.chat_id)]_vars

\* What holds of the code: a request answered with 400 writes nothing, and no
\* create_message request changes the set of chat ids.
RejectedCreateMessageWritesNothing ==
    [][/\ (chat_resp'.op = "create_message" /\ chat_resp'.status = 400) =>
              messages' = messages /\ chats' = chats
       /\ chat_resp'.op = "create_message" =>
              {c.id : c \in chats'} = {c.id : c \in chats}]_vars

(***************************************************************************)
(* Concurrent chat requests                                                *)
(***************************************************************************)

raceOthers ==
    <<cacheVars, authVars, apiVars, routerVars, pipelineVars, dateVars, formatVars,
      adminVars, searchVars, extractVars, bootstrapVars,
      saveVars,
      loadVars,
      endpointVars,
      configVars>>

\* How many create_message requests run concurrently with the delete_chat.
MaxWriters == 2

Writers == 1..MaxWriters

\* The chat ids the concurrent requests name.
WellFormedIds == {s \in IdStrings : s # MalformedId}

NoDeleteRequest == [pc |-> "idle", chat_id |-> MalformedId, status |-> 0]

NoCreateRequest == [pc |-> "idle", chat_id |-> MalformedId, text |-> <<>>, status |-> 0]

RaceInit ==
    /\ delete_req = NoDeleteRequest
    /\ create_reqs = [w \in Writers |-> NoCreateRequest]

\* delete_chat up to its first await: messages_collection.delete_many
DeleteChatMessages(chat_id) ==
    /\ delete_req.pc = "idle"
    /\ ObjectId(chat_id) # InvalidId
    /\ messages' = DeleteManyMessages(messages, chat_id)
    /\ delete_req' = [pc |-> "messages_deleted", chat_id |-> chat_id, status |-> 0]
    /\ UNCHANGED <<chats, next_oid, web_now, chat_resp, create_reqs>>
    /\ UNCHANGED raceOthers

\* delete_chat from chats_collection.delete_one to its response
DeleteChatChat ==
    /\ delete_req.pc = "messages_deleted"
    /\ LET kept == DeleteOneChat(chats, ObjectId(delete_req.chat_id))
       IN  /\ chats' = kept
           /\ delete_req' = [delete_req EXCEPT
                                !.pc = "done",
                                !.status = IF Cardinality(kept) = Cardinality(chats)
                                           THEN 404 ELSE 200]
    /\ UNCHANGED <<messages, next_oid, web_now, chat_resp, create_reqs>>
    /\ UNCHANGED raceOthers

\* create_message up to its first await: the key check and messages_collection.insert_one.
\* The request arrives before the delete_chat has answered.
CreateMessageInsert(w, data) ==
    /\ create_reqs[w].pc = "idle"
    /\ delete_req.pc # "done"
    /\ RequiredKeys \subseteq data.keys
    /\ next_oid <= MaxOids
    /\ messages' = messages \cup {[id |-> next_oid, chat_id |-> data.chat_id,
                                    user_id |-> data.user_id, text |-> data.text,
                                    rating |-> 0, timestamp |-> web_now]}
    /\ next_oid' = next_oid + 1
    /\ web_now' = web_now + 1
    /\ create_reqs' = [create_reqs EXCEPT ![w] =
                          [pc |-> "inserted", chat_id |-> data.chat_id,
                           text |-> data.text, status |-> 0]]
    /\ UNCHANGED <<chats, chat_resp, delete_req>>
    /\ UNCHANGED raceOthers

\* create_message from update_chat's chats_collection.update_one to its response
CreateMessageUpdateChat(w) ==
    /\ create_reqs[w].pc = "inserted"
    /\ LET oid == ObjectId(create_reqs[w].chat_id)
           found == MatchedCount(chats, oid) # 0
       IN  /\ chats' = IF found
                       THEN UpdateOneChat(chats, oid, Summary(create_reqs[w].text), web_now)
                       ELSE chats
           /\ create_reqs' = [create_reqs EXCEPT ![w].pc = "done",
                                                 ![w].status = IF found THEN 200 ELSE 404]
    /\ web_now' = web_now + 1
    /\ UNCHANGED <<messages, next_oid, chat_resp, delete_req>>
    /\ UNCHANGED raceOthers

\* The bodies of the concurrent create_message requests.
RaceBodies ==
    {data \in MessageBodies : data.keys = RequiredKeys /\ data.text = MakeText(3, "a")
                              /\ data.chat_id \in WellFormedIds}

NextRace ==
    \/ CreateChat(MakeText(2, "n"), "u1") /\ UNCHANGED raceVars
    \/ \E s \in WellFormedIds : DeleteChatMessages(s)
    \/ DeleteChatChat
    \/ \E w \in Writers, data \in RaceBodies : CreateMessageInsert(w, data)
    \/ \E w \in Writers : CreateMessageUpdateChat(w)

\* C23: one delete_chat(c) against concurrent create_message requests for c: once
\* every request has completed and chat c is absent, no message with chat_id c
\* remains in the messages collection.
C23_NoMessageOutlivesItsChat ==
    (/\ delete_req.pc = "done"
     /\ \A w \in Writers : create_reqs[w].pc # "inserted"
     /\ ~NamesChat(chats, delete_req.chat_id))
        => \A m \in messages : m.chat_id # delete_req.chat_id

(***************************************************************************)
(* ONC API client: request spacing                                         *)
(***************************************************************************)

\* self.min_request_interval = 0.1 seconds
min_request_interval == 100

\* self.timeout = 30 seconds
timeout == 30000

\* How many _make_request calls one client makes.
MaxRequests == 4

\* time.time() when the client is constructed: long after the epoch.
ClockStart == 100000

\* How long after the previous call returned the caller makes the next call.
CallerDelays == {0, 40, 100}

\* What session.get does: it returns a response (status 200 with a JSON body,
\* status 200 with a body that is not JSON, or another status), or it raises
\* Timeout or another RequestException (a refused connection, for one).
RequestOutcomes == {"200", "non_200", "json_decode_failure", "timeout", "connection_failure"}

\* The outcomes on which session.get returned a response.
GotResponse(outcome) == outcome \in {"200", "non_200", "json_decode_failure"}

\* How long session.get takes.
RequestDuration(outcome) ==
    CASE outcome = "timeout" -> timeout
      [] outcome = "connection_failure" -> 1
      [] OTHER -> 20

\* The "error" entry of the dictionary _make_request returns ("none" on success).
\* response.json() raises requests' JSONDecodeError, a RequestException, so the
\* handler of RequestException is the one that catches it.
RequestError(outcome) ==
    CASE outcome = "200" -> "none"
      [] outcome = "non_200" -> "HTTP status"
      [] outcome = "timeout" -> "timeout"
      [] OTHER -> "request_failed"

ApiInit ==
    /\ api_clock = ClockStart
    /\ last_request_time = 0
    /\ api_call = [n |-> 0, outcome |-> "none", error |-> "none", issued |-> 0,
                   returned |-> 0, previous_returned |-> 0]

\* _make_request(endpoint, params): sleep as the rate limit asks, issue the HTTP
\* request, and record the time of its return when session.get returned a response.
MakeRequest(delay, outcome) ==
    /\ api_call.n < MaxRequests
    /\ LET current_time == api_clock + delay
           time_since_last == current_time - last_request_time
           slept == IF time_since_last < min_request_interval
                    THEN min_request_interval - time_since_last ELSE 0
           issued == current_time + slept
           returned == issued + RequestDuration(outcome)
       IN  /\ last_request_time' = IF GotResponse(outcome) THEN returned
                                   ELSE last_request_time
           /\ api_clock' = returned
           /\ api_call' = [n |-> api_call.n + 1, outcome |-> outcome,
                           error |-> RequestError(outcome), issued |-> issued,
                           returned |-> returned, previous_returned |-> api_call.returned]
    /\ UNCHANGED apiOthers

NextApi == \E delay \in CallerDelays, outcome \in RequestOutcomes : MakeRequest(delay, outcome)

\* C6: whatever the outcome of each call, the HTTP request of a call is not issued
\* until at least 100 ms after the previous call's request returned.
C6_RequestsSpacedAfterReturn ==
    api_call.n >= 2 => api_call.issued - api_call.previous_returned >= min_request_interval

\* The spacing the code keeps: 100 ms after the last request that returned a response.
RequestsSpacedAfterResponse ==
    api_call.n >= 1 => api_call.issued - last_request_time >= min_request_interval
       \/ (GotResponse(api_call.outcome) /\ last_request_time = api_call.returned)

(***************************************************************************)
(* ONC API client: get_devices and search_data                             *)
(***************************************************************************)

searchOthers ==
    <<cacheVars, authVars, chatVars, routerVars, pipelineVars, dateVars, formatVars,
      adminVars, extractVars,
      bootstrapVars,
      raceVars,
      saveVars,
      loadVars,
      endpointVars,
      configVars>>

\* How many devices the devices endpoint lists for a location.
MaxDevices == 2

DeviceCodes == {"CTD1", "CTD2"}

\* The device lists the devices endpoint answers with.
DeviceLists ==
    UNION {[1..n -> {[deviceCode |-> c] : c \in DeviceCodes}] : n \in 0..MaxDevices}

\* The property asked for, and the sensors of a scalar-data answer: two that
\* measure it, one whose propertyCode only contains the same word, and a null entry.
PropertyCodes == {"seawatertemperature"}

NullSensor == [sensorCode |-> "null", propertyCode |-> "null"]

SensorData ==
    LET t1 == [sensorCode |-> "temperature1", propertyCode |-> "seawatertemperature"]
        t2 == [sensorCode |-> "temperature2", propertyCode |-> "seawatertemperature"]
        c1 == [sensorCode |-> "conductivity1", propertyCode |-> "temperature"]
    IN  {<<>>, <<c1>>, <<c1, t1>>, <<t1, t2>>, <<NullSensor, t2>>}

\* A JSON document: a list, or an object with or without a sensorData member
\* (a list of sensors, or null).
JsonList(items) == [kind |-> "list", items |-> items, sensorData |-> "absent", sensors |-> <<>>]

JsonObject(sensorData, sensors) ==
    [kind |-> "object", items |-> <<>>, sensorData |-> sensorData, sensors |-> sensors]

\* What session.get does for one request: the outcome and, on status 200 with a
\* JSON body, the document.
FailedReplies ==
    {[outcome |-> o, body |-> JsonObject("absent", <<>>)] :
        o \in {"non_200", "timeout", "connection_failure"}}

DevicesReplies ==
    {[outcome |-> "200", body |-> JsonList(devices)] : devices \in DeviceLists}
    \cup {[outcome |-> "200", body |-> JsonObject("absent", <<>>)]}
    \cup FailedReplies

ScalarReplies ==
    {[outcome |-> "200", body |-> JsonObject("list", sensors)] : sensors \in SensorData}
    \cup {[outcome |-> "200", body |-> JsonObject("null", <<>>)],
          [outcome |-> "200", body |-> JsonObject("absent", <<>>)]}
    \cup {r \in FailedReplies : r.outcome = "non_200"}

\* The dictionary _make_request returns: the error dictionary, the JSON object
\* with its debug information, or a JSON list wrapped under "data".
MakeRequestResponse(reply) ==
    IF RequestError(reply.outcome) # "none"
    THEN [kind |-> "object", error |-> RequestError(reply.outcome), has_data |-> FALSE,
          data |-> <<>>, sensorData |-> "absent", sensors |-> <<>>]
    ELSE IF reply.body.kind = "list"
    THEN [kind |-> "object", error |-> "none", has_data |-> TRUE,
          data |-> reply.body.items, sensorData |-> "absent", sensors |-> <<>>]
    ELSE [kind |-> "object", error |-> "none", has_data |-> FALSE,
          data |-> <<>>, sensorData |-> reply.body.sensorData, sensors |-> reply.body.sensors]

\* The clock, last_request_time and the record of the last call after the
\* _make_request calls with the given outcomes, made one right after the other.
RECURSIVE AfterRequests(_, _)
AfterRequests(client, outcomes) ==
    IF outcomes = <<>> THEN client
    ELSE LET outcome == Head(outcomes)
             time_since_last == client.api_clock - client.last_request_time
             slept == IF time_since_last < min_request_interval
                      THEN min_request_interval - time_since_last ELSE 0
             issued == client.api_clock + slept
             returned == issued + RequestDuration(outcome)
         IN  AfterRequests(
                 [api_clock |-> returned,
                  last_request_time |-> IF GotResponse(outcome) THEN returned
                                        ELSE client.last_request_time,
                  api_call |-> [n |-> client.api_call.n + 1, outcome |-> outcome,
                                error |-> RequestError(outcome), issued |-> issued,
                                returned |-> returned,
                                previous_returned |-> client.api_call.returned]],
                 Tail(outcomes))

Client == [api_clock |-> api_clock, last_request_time |-> last_request_time,
           api_call |-> api_call]

\* get_devices(location_code, device_category).  The filter on the category runs
\* only when params lacks deviceCategoryCode, which a given category has put there.
GetDevices(has_category, reply) ==
    /\ api_call.n + 1 + MaxDevices <= MaxRequests
    /\ LET response == MakeRequestResponse(reply)
           devices == IF response.error # "none" THEN <<>>
                      ELSE IF response.kind = "list" THEN response.data
                      ELSE <<>>
           after == AfterRequests(Client, <<reply.outcome>>)
       IN  /\ search_call' = [op |-> "get_devices", has_category |-> has_category,
                              devices_reply |-> reply, result |-> devices]
           /\ api_clock' = after.api_clock
           /\ last_request_time' = after.last_request_time
           /\ api_call' = after.api_call
    /\ UNCHANGED searchOthers

\* get_scalar_data(device_code, ...): the response of the request, or an empty
\* sensorData when the request failed.
GetScalarData(reply) ==
    LET response == MakeRequestResponse(reply)
    IN  IF response.error # "none"
        THEN [kind |-> "object", error |-> "none", has_data |-> FALSE, data |-> <<>>,
              sensorData |-> "list", sensors |-> <<>>]
        ELSE response

\* The sensors of a scalar response whose propertyCode is the requested one.
MatchingSensors(scalar_response, property_code) ==
    SelectSeq(scalar_response.sensors,
              LAMBDA sensor : sensor # NullSensor /\ sensor.propertyCode = property_code)

RECURSIVE TryDevicesFrom(_, _, _, _)
TryDevicesFrom(i, devices, replies, property_code) ==
    IF i > Len(devices) THEN [scalar_data_requests |-> <<>>, all_sensor_data |-> <<>>]
    ELSE LET scalar_response == GetScalarData(replies[i])
             entry == [device_code |-> devices[i].deviceCode, response |-> scalar_response]
             matching_sensors == MatchingSensors(scalar_response, property_code)
         IN  IF matching_sensors # <<>>
             THEN [scalar_data_requests |-> <<entry>>, all_sensor_data |-> matching_sensors]
             ELSE LET rest == TryDevicesFrom(i + 1, devices, replies, property_code)
                  IN  [rest EXCEPT !.scalar_data_requests = <<entry>> \o @]

\* The loop of search_data over the devices: replies[i] is what the scalar-data
\* request for the i-th device meets, if it is made.
TryDevices(devices, replies, property_code) ==
    TryDevicesFrom(1, devices, replies, property_code)

\* The device list search_data reads from the response of the devices request.
DevicesOf(devices_response) ==
    IF devices_response.error # "none" THEN <<>>
    ELSE IF devices_response.kind = "list" THEN devices_response.data
    ELSE IF devices_response.has_data THEN devices_response.data
    ELSE <<>>

\* search_data(location_code, device_category, property_code, date_from, date_to)
SearchData(property_code, devices_reply, replies) ==
    /\ api_call.n + 1 + MaxDevices <= MaxRequests
    /\ LET devices_response == MakeRequestResponse(devices_reply)
           devices == DevicesOf(devices_response)
           tried == TryDevices(devices, replies, property_code)
           requested == Len(tried.scalar_data_requests)
           result ==
               IF devices = <<>>
               THEN [status |-> "error", data |-> <<>>,
                     raw_api_responses |-> [devices_request |-> devices_response]]
               ELSE [status |-> IF tried.all_sensor_data = <<>> THEN "no_data" ELSE "success",
                     data |-> tried.all_sensor_data,
                     raw_api_responses |->
                         [devices_request |-> devices_response,
                          scalar_data_requests |-> tried.scalar_data_requests]]
           after == AfterRequests(Client, <<devices_reply.outcome>>
                                          \o [i \in 1..requested |-> replies[i].outcome])
       IN  /\ search_call' = [op |-> "search_data", property_code |-> property_code,
                              devices_reply |-> devices_reply, replies |-> replies,
                              result |-> result]
           /\ api_clock' = after.api_clock
           /\ last_request_time' = after.last_request_time
           /\ api_call' = after.api_call
    /\ UNCHANGED searchOthers

SearchInit == search_call = [op |-> "none"]

NextSearch ==
    \/ \E has_category \in BOOLEAN, reply \in DevicesReplies : GetDevices(has_category, reply)
    \/ \E property_code \in PropertyCodes, devices_reply \in DevicesReplies :
          \E replies \in [1..Len(DevicesOf(MakeRequestResponse(devices_reply)))
                             -> ScalarReplies] :
              SearchData(property_code, devices_reply, replies)

\* The devices the devices endpoint listed (none when the request failed or the
\* answer is not a list).
ListedDevices(reply) ==
    IF reply.outcome = "200" /\ reply.body.kind = "list" THEN reply.body.items ELSE <<>>

\* The sensors with exactly the requested propertyCode in what the scalar-data
\* request meets.
Yield(reply, property_code) ==
    IF reply.outcome = "200" /\ reply.body.sensorData = "list"
    THEN SelectSeq(reply.body.sensors,
                   LAMBDA sensor : sensor # NullSensor /\ sensor.propertyCode = property_code)
    ELSE <<>>

\* The status and data of search_data: success with the matching sensors of the
\* first device that has any, that device being the last one queried; no_data when
\* devices are listed and all were queried without a match; error when none is listed.
SearchDataStatusAndData ==
    search_call.op = "search_data" =>
        LET result == search_call.result
            devices == ListedDevices(search_call.devices_reply)
            hits == {i \in 1..Len(devices) :
                        Yield(search_call.replies[i], search_call.property_code) # <<>>}
        IN  /\ result.status = "success" <=> hits # {}
            /\ result.status = "no_data" <=> (devices # <<>> /\ hits = {})
            /\ result.status = "error" <=> devices = <<>>
            /\ hits # {} =>
                  LET first == CHOOSE i \in hits : \A j \in hits : i <= j
                  IN  /\ Len(result.raw_api_responses.scalar_data_requests) = first
                      /\ result.data = Yield(search_call.replies[first],
                                             search_call.property_code)
            /\ result.status = "no_data" =>
                  Len(result.raw_api_responses.scalar_data_requests) = Len(devices)
            /\ result.status # "error" =>
                  \A i \in 1..Len(result.raw_api_responses.scalar_data_requests) :
                      result.raw_api_responses.scalar_data_requests[i].device_code
                          = devices[i].deviceCode

\* C17: search_data reports success, no_data or error as the devices and their
\* matching sensors decide, stops at the first device with a matching sensor, and
\* retains under raw_api_responses, in request order, the response of every
\* scalar-data request it made.
C17_SearchDataRetainsEveryResponse ==
    /\ SearchDataStatusAndData
    /\ (search_call.op = "search_data" /\ search_call.result.status # "error") =>
          \A i \in 1..Len(search_call.result.raw_api_responses.scalar_data_requests) :
              search_call.result.raw_api_responses.scalar_data_requests[i].response
                  = MakeRequestResponse(search_call.replies[i])

\* What holds of the code: the status and data are as claimed, and what is retained
\* for a scalar-data request is its response when the request succeeded and an
\* empty sensorData in place of the error response when it failed.
SearchDataRetainsSuccessfulResponses ==
    /\ SearchDataStatusAndData
    /\ (search_call.op = "search_data" /\ search_call.result.status # "error") =>
          \A i \in 1..Len(search_call.result.raw_api_responses.scalar_data_requests) :
              LET retained ==
                      search_call.result.raw_api_responses.scalar_data_requests[i].response
                  response == MakeRequestResponse(search_call.replies[i])
              IN  IF response.error = "none" THEN retained = response
                  ELSE retained.sensorData = "list" /\ retained.sensors = <<>>
                       /\ retained.error = "none"

\* C18: when the devices endpoint answers 200 with a list of devices, get_devices
\* returns that list; it returns the empty list only when the request failed or
\* no device is listed.
C18_GetDevicesReturnsListedDevices ==
    search_call.op = "get_devices" =>
        /\ (search_call.devices_reply.outcome = "200"
            /\ search_call.devices_reply.body.kind = "list") =>
               search_call.result = search_call.devices_reply.body.items
        /\ search_call.result = <<>> => ListedDevices(search_call.devices_reply) = <<>>

\* What holds of the code: get_devices returns the empty list whatever the answer.
GetDevicesReturnsNoDevice ==
    search_call.op = "get_devices" => search_call.result = <<>>

(***************************************************************************)
(* Query router                                                            *)
(***************************************************************************)

\* A query is the sequence of its lower-case words.  The keyword tests of the
\* router are substring tests on the query text: a one-word keyword occurs in a
\* query when it is a substring of one of its words, and a keyword of several
\* words occurs when its words follow each other in the query.
\* WordContains(word): the keywords (of any list) that are substrings of a word.
WordContains(word) ==
    CASE word = "temperature" -> {"temperature"}
      [] word = "paper" -> {"paper"}
      [] word = "photo" -> {"ph", "to"}
      [] word = "current" -> {"current"}
      [] word = "yesterday" -> {"yesterday"}
      [] word = "it" -> {"it"}
      [] OTHER -> {}

Phrases == {<<"what", "is">>, <<"what", "is", "the">>}

PhraseText(phrase) == IF Len(phrase) = 2 THEN "what is" ELSE "what is the"

\* The keywords (of any list) that are substrings of the query text.
Substrings(query) ==
    UNION {WordContains(query[i]) : i \in 1..Len(query)}
    \cup {PhraseText(phrase) : phrase \in
             {ph \in Phrases : \E i \in 1..Len(query) :
                 /\ i + Len(ph) - 1 <= Len(query)
                 /\ SubSeq(query, i, i + Len(ph) - 1) = ph}}

\* _load_vector_keywords: the default list
vector_keywords ==
    {"document", "paper", "research", "study", "publication", "article", "content",
     "text", "explain", "describe", "what is", "how does", "definition", "overview"}

\* _load_database_keywords: the default list
database_keywords ==
    {"temperature", "salinity", "pressure", "depth", "ph", "oxygen", "conductivity",
     "chlorophyll", "turbidity", "density", "fluorescence",
     "data", "measurement", "sensor", "instrument", "value", "reading",
     "latest", "current", "recent", "today", "yesterday", "now",
     "cambridge bay", "station", "location", "coordinates", "site",
     "time series", "when", "since", "from", "to", "between",
     "get", "show", "find", "retrieve", "what is the", "how much", "give me", "tell me"}

\* How many keywords of a list occur in the query (keyword in query).
KeywordMatches(query, keywords) == Cardinality(Substrings(query) \cap keywords)

\* len(query.split()), at least 1
WordCount(query) == Max(Len(query), 1)

\* Scores are fractions; a score x is kept as the integer x * 200 * WordCount(query).
\* _calculate_vector_score / _calculate_database_score: matches / max(word_count, 1)
CalculateScore(query, keywords) == 200 * KeywordMatches(query, keywords)

\* _adjust_scores_for_follow_up: bias_strength = confidence * 0.3 (confidence in
\* tenths), added to the score of the last route, or half of it to both for hybrid.
AdjustScoresForFollowUp(vector_score, database_score, follow_up_info, words) ==
    LET bias_strength == 6 * follow_up_info.confidence * words
        last_route == follow_up_info.last_route
    IN  IF ~follow_up_info.is_follow_up THEN <<vector_score, database_score>>
        ELSE IF last_route = "vector_search" THEN <<vector_score + bias_strength, database_score>>
        ELSE IF last_route = "database_search" THEN <<vector_score, database_score + bias_strength>>
        ELSE IF last_route = "hybrid_search"
             THEN <<vector_score + bias_strength \div 2, database_score + bias_strength \div 2>>
        ELSE <<vector_score, database_score>>

\* The entries of a decision's parameters that speak of the conversation: none
\* until _enhance_routing_with_context writes them.
NoParameters ==
    [enhanced |-> FALSE, has_conversation_context |-> FALSE, is_follow_up |-> FALSE,
     follow_up_confidence |-> 0, route_adjustment |-> "none",
     original_classification |-> "none", inherited_classification |-> "none"]

RoutingDecision(type, tier, classification, confidence) ==
    [type |-> type, tier |-> tier, classification |-> classification, confidence |-> confidence,
     parameters |-> NoParameters]

\* A keyword decision that forgets to ask whether a vector store exists.
MakeRoutingDecisionAnyStore(vector_score, database_score, context, words) ==
    IF context.has_database /\ database_score > 0
    THEN IF database_score > 30 * words /\ vector_score > 20 * words
         THEN RoutingDecision("hybrid_search", "keyword", "", "")
         ELSE RoutingDecision("database_search", "keyword", "", "")
    ELSE IF vector_score > 20 * words
         THEN RoutingDecision("vector_search", "keyword", "", "")
    ELSE RoutingDecision("direct_llm", "keyword", "", "")

\* _make_routing_decision with the default thresholds (vector 0.1, hybrid 0.15)
MakeRoutingDecision(vector_score, database_score, context, words) ==
    LET vector_threshold == 20 * words
        hybrid_threshold == 30 * words
    IN  IF context.has_database /\ database_score > 0
        THEN IF database_score > hybrid_threshold /\ vector_score > vector_threshold
             THEN RoutingDecision("hybrid_search", "keyword", "", "")
             ELSE RoutingDecision("database_search", "keyword", "", "")
        ELSE IF vector_score > vector_threshold /\ context.has_vector_store
             THEN RoutingDecision("vector_search", "keyword", "", "")
        ELSE RoutingDecision("direct_llm", "keyword", "", "")

\* _correct_bert_classification: a deployment_info or general_knowledge label is
\* turned into observation_query when the query reads like a data request.
CorrectBertClassification(predicted_label, query) ==
    LET data_request_keywords ==
            {"do you have", "show me", "get me", "give me", "find", "retrieve",
             "data", "measurements", "readings", "values", "observations",
             "temperature data", "salinity data", "pressure data", "ph data",
             "sensor data", "instrument data", "latest", "recent", "current",
             "from yesterday", "from today", "last week", "last month"}
        temporal_patterns ==
            {"last year", "this day last year", "yesterday", "today", "last week",
             "last month", "on this day", "current", "now", "recent", "latest"}
        parameter_patterns ==
            {"temperature", "salinity", "pressure", "ph", "oxygen", "conductivity",
             "chlorophyll", "turbidity", "density", "fluorescence"}
        observation_patterns ==
            {"what was the", "what is the", "current", "temperature in", "temperature at",
             "temperature on", "data from", "measurements from", "readings from"}
        general_patterns ==
            {"measurements from", "data from", "yesterday", "last week",
             "show me", "get me", "give me data"}
    IN  IF predicted_label = "deployment_info"
        THEN IF \/ KeywordMatches(query, observation_patterns) >= 1
                \/ (KeywordMatches(query, temporal_patterns) >= 1
                      /\ KeywordMatches(query, parameter_patterns) >= 1)
                \/ KeywordMatches(query, data_request_keywords) >= 2
             THEN "observation_query" ELSE predicted_label
        ELSE IF predicted_label = "general_knowledge"
        THEN IF KeywordMatches(query, general_patterns) >= 1
             THEN "observation_query" ELSE predicted_label
        ELSE predicted_label

\* _map_bert_classification_to_route and _map_llm_classification_to_route: the
\* two differ in the confidence they report only.
MapClassificationToRoute(tier, classification, confidence, context) ==
    LET has_vector_store == context.has_vector_store
        has_database == context.has_database
        certain == IF tier = "bert" THEN confidence ELSE "high"
        general == IF tier = "bert" THEN confidence ELSE "medium"
    IN  IF classification = "observation_query" /\ has_database
        THEN RoutingDecision("database_search", tier, classification, certain)
        ELSE IF classification = "deployment_info" /\ has_vector_store
        THEN RoutingDecision("vector_search", tier, classification, certain)
        ELSE IF classification = "document_search" /\ has_vector_store
        THEN RoutingDecision("vector_search", tier, classification, certain)
        ELSE IF classification = "general_knowledge"
        THEN IF has_vector_store
             THEN RoutingDecision("vector_search", tier, classification, general)
             ELSE RoutingDecision("direct_llm", tier, classification, general)
        ELSE IF has_database /\ has_vector_store
        THEN RoutingDecision("hybrid_search", tier, classification, "low")
        ELSE IF has_database
        THEN RoutingDecision("database_search", tier, classification, "low")
        ELSE IF has_vector_store
        THEN RoutingDecision("vector_search", tier, classification, "low")
        ELSE RoutingDecision("direct_llm", tier, classification, "low")

\* What a model tier does in one call: it raises, or it yields a label (the
\* classifier's label carries a confidence level; the LLM's text may be no label).
Labels == {"observation_query", "deployment_info", "general_knowledge", "document_search"}

BertOutcomes ==
    {[raised |-> TRUE, label |-> "", confidence |-> ""]}
    \cup {[raised |-> FALSE, label |-> l, confidence |-> "high"] : l \in Labels}

LlmOutcomes ==
    {[raised |-> TRUE, label |-> "", confidence |-> ""]}
    \cup {[raised |-> FALSE, label |-> l, confidence |-> ""] :
             l \in Labels \cup {"i am not sure"}}

TierUnused == [raised |-> FALSE, label |-> "unused", confidence |-> ""]

\* An enhancement that annotates every follow-up of confidence above 0.7.
EnhanceRoutingAbovePointSeven(routing_decision, context) ==
    LET follow_up_info == context.follow_up_info
        annotate == /\ follow_up_info.is_follow_up /\ follow_up_info.confidence > 7
                    /\ follow_up_info.last_classification # "none"
                    /\ routing_decision.classification # follow_up_info.last_classification
    IN  [routing_decision EXCEPT !.parameters =
            [enhanced |-> TRUE,
             has_conversation_context |-> context.conversation_context,
             is_follow_up |-> follow_up_info.is_follow_up,
             follow_up_confidence |-> follow_up_info.confidence,
             route_adjustment |-> IF annotate THEN "follow_up_bias" ELSE "none",
             original_classification |->
                 IF annotate THEN routing_decision.classification ELSE "none",
             inherited_classification |->
                 IF annotate THEN follow_up_info.last_classification ELSE "none"]]

\* _enhance_routing_with_context(routing_decision, query, context); confidences
\* are in tenths.
EnhanceRoutingWithContext(routing_decision, context) ==
    LET follow_up_info == context.follow_up_info
        annotate == /\ follow_up_info.is_follow_up /\ follow_up_info.confidence > 7
                    /\ follow_up_info.last_classification # "none"
                    /\ routing_decision.classification # follow_up_info.last_classification
                    /\ follow_up_info.confidence > 8
    IN  [routing_decision EXCEPT !.parameters =
            [enhanced |-> TRUE,
             has_conversation_context |-> context.conversation_context,
             is_follow_up |-> follow_up_info.is_follow_up,
             follow_up_confidence |-> follow_up_info.confidence,
             route_adjustment |-> IF annotate THEN "follow_up_bias" ELSE "none",
             original_classification |->
                 IF annotate THEN routing_decision.classification ELSE "none",
             inherited_classification |->
                 IF annotate THEN follow_up_info.last_classification ELSE "none"]]

\* route_query(query, context): the classifier tier, then the LLM tier, then the
\* keyword tier.  The result holds the decision, the tiers attempted in order
\* and the tiers that raised.
RouteQuery(rtr, query, context, bert, llm) ==
    LET follow_up_info == context.follow_up_info
        enhance == context.conversation_context \/ follow_up_info.is_follow_up
        bert_routed ==
            MapClassificationToRoute("bert", CorrectBertClassification(bert.label, query),
                                     bert.confidence, context)
        bert_decision == IF enhance THEN EnhanceRoutingWithContext(bert_routed, context)
                         ELSE bert_routed
        llm_routed == MapClassificationToRoute("llm", llm.label, "", context)
        llm_decision == IF enhance THEN EnhanceRoutingWithContext(llm_routed, context)
                        ELSE llm_routed
        words == WordCount(query)
        scores == AdjustScoresForFollowUp(CalculateScore(query, vector_keywords),
                                          CalculateScore(query, database_keywords),
                                          follow_up_info, words)
        keyword_decision == MakeRoutingDecision(scores[1], scores[2], context, words)
        bert_tried == IF rtr.use_bert_routing THEN <<"bert">> ELSE <<>>
        bert_failed == rtr.use_bert_routing /\ bert.raised
        llm_tried == IF rtr.use_llm_routing THEN <<"llm">> ELSE <<>>
        llm_failed == rtr.use_llm_routing /\ llm.raised
    IN  IF rtr.use_bert_routing /\ ~bert.raised
        THEN [decision |-> bert_decision, attempts |-> bert_tried, raised |-> {}]
        ELSE IF rtr.use_llm_routing /\ ~llm.raised
        THEN [decision |-> llm_decision, attempts |-> bert_tried \o llm_tried,
              raised |-> IF bert_failed THEN {"bert"} ELSE {}]
        ELSE [decision |-> keyword_decision,
              attempts |-> bert_tried \o llm_tried \o <<"keyword">>,
              raised |-> (IF bert_failed THEN {"bert"} ELSE {})
                         \cup (IF llm_failed THEN {"llm"} ELSE {})]

Queries ==
    {<<>>, <<"hello">>, <<"photo">>, <<"it", "yesterday">>, <<"what", "is", "paper">>,
     <<"what", "is", "the", "temperature">>}

NoFollowUp ==
    [is_follow_up |-> FALSE, confidence |-> 0, last_route |-> "none",
     last_classification |-> "none"]

\* follow_up_info as the caller passes it: the confidence in tenths, and the
\* route_type and the classification of the last message's metadata ("none" when
\* it has none).
FollowUp(confidence, last_route, last_classification) ==
    [is_follow_up |-> TRUE, confidence |-> confidence, last_route |-> last_route,
     last_classification |-> last_classification]

FollowUps ==
    {NoFollowUp,
     FollowUp(8, "database_search", "observation_query"),
     FollowUp(10, "database_search", "observation_query"),
     FollowUp(10, "vector_search", "general_knowledge"),
     FollowUp(10, "hybrid_search", "none")}

\* The contexts of a call: the conversation context is a text (TRUE) or empty.
Contexts ==
    {[has_vector_store |-> v, has_database |-> d, conversation_context |-> c[1],
      follow_up_info |-> c[2]] :
        v \in BOOLEAN, d \in BOOLEAN,
        c \in ({TRUE} \X FollowUps) \cup {<<FALSE, NoFollowUp>>,
                                          <<FALSE, FollowUp(10, "vector_search",
                                                            "general_knowledge")>>}}

NoRouteCall ==
    [called |-> FALSE, query |-> <<>>,
     context |-> [has_vector_store |-> FALSE, has_database |-> FALSE,
                  conversation_context |-> FALSE, follow_up_info |-> NoFollowUp],
     decision |-> RoutingDecision("none", "none", "", ""), attempts |-> <<>>, raised |-> {}]

RouterInit ==
    /\ router = [constructed |-> FALSE, use_bert_routing |-> FALSE, use_llm_routing |-> FALSE]
    /\ route_call = NoRouteCall

\* QueryRouter(routing_config) with the default configuration: a tier is enabled
\* when its model (the classifier, the LLM client) could be set up.
RouterConstruct(bert_model_loaded, groq_client_created) ==
    /\ router' = [constructed |-> TRUE, use_bert_routing |-> bert_model_loaded,
                  use_llm_routing |-> groq_client_created]
    /\ route_call' = NoRouteCall
    /\ UNCHANGED routerOthers

\* router.route_query(query, context)
RouterRouteQuery(query, context, bert, llm) ==
    /\ router.constructed
    /\ LET result == RouteQuery(router, query, context, bert, llm)
       IN  route_call' = [called |-> TRUE, query |-> query, context |-> context,
                          decision |-> result.decision, attempts |-> result.attempts,
                          raised |-> result.raised]
    /\ UNCHANGED router
    /\ UNCHANGED routerOthers

\* The contexts of the runs that look at the order of the tiers: a conversation
\* context comes with a follow-up.
RouterContexts ==
    {c \in Contexts : /\ c.conversation_context = c.follow_up_info.is_follow_up
                      /\ c.follow_up_info # FollowUp(10, "database_search",
                                                      "observation_query")}

NextRouter ==
    \/ \E b \in BOOLEAN, g \in BOOLEAN : RouterConstruct(b, g)
    \/ \E query \in Queries, context \in RouterContexts,
          bert \in (IF router.use_bert_routing THEN BertOutcomes ELSE {TierUnused}) :
          \E llm \in (IF router.use_llm_routing /\ (~router.use_bert_routing \/ bert.raised)
                       THEN LlmOutcomes ELSE {TierUnused}) :
              RouterRouteQuery(query, context, bert, llm)

\* The runs that look at the conversation entries of the parameters: every
\* context, and two queries.
NextEnhance ==
    \/ \E b \in BOOLEAN, g \in BOOLEAN : RouterConstruct(b, g)
    \/ \E query \in {<<"hello">>, <<"it", "yesterday">>}, context \in Contexts,
          bert \in (IF router.use_bert_routing THEN BertOutcomes ELSE {TierUnused}) :
          \E llm \in (IF router.use_llm_routing /\ (~router.use_bert_routing \/ bert.raised)
                       THEN LlmOutcomes ELSE {TierUnused}) :
              RouterRouteQuery(query, context, bert, llm)

\* A tier is unavailable in a call when it is disabled or it raised in that call.
TierUnavailable(tier) ==
    \/ tier = "bert" /\ ~router.use_bert_routing
    \/ tier = "llm" /\ ~router.use_llm_routing
    \/ tier \in route_call.raised

\* C10: route_query is a one-pass degradation chain: the LLM tier is attempted only
\* if the classifier tier is disabled or raised, the keyword tier only if both model
\* tiers are disabled or raised, no tier is attempted twice, the decision comes from
\* the first tier that did not fail, and with both model tiers unavailable, no
\* keyword match in either list and neither data source, the route is direct_llm.
C10_OnePassDegradationChain ==
    route_call.called =>
        LET attempts == route_call.attempts
            n == Len(attempts)
        IN  /\ (\E i \in 1..n : attempts[i] = "llm") => TierUnavailable("bert")
            /\ (\E i \in 1..n : attempts[i] = "keyword")
                  => TierUnavailable("bert") /\ TierUnavailable("llm")
            /\ \A i, j \in 1..n : i # j => attempts[i] # attempts[j]
            /\ \A i \in 1..n : attempts[i] = "bert" => router.use_bert_routing
            /\ \A i \in 1..n : attempts[i] = "llm" => router.use_llm_routing
            /\ n >= 1
            /\ route_call.decision.tier = attempts[n]
            /\ attempts[n] \notin route_call.raised
            /\ \A i \in 1..(n - 1) : attempts[i] \in route_call.raised
            /\ ( /\ TierUnavailable("bert") /\ TierUnavailable("llm")
                 /\ KeywordMatches(route_call.query, vector_keywords) = 0
                 /\ KeywordMatches(route_call.query, database_keywords) = 0
                 /\ ~route_call.context.has_vector_store
                 /\ ~route_call.context.has_database )
                  => route_call.decision.type = "direct_llm"

\* Both model tiers raised, the query matches no keyword, no data source exists, the
\* query is a follow-up to a vector_search answer, and the keyword tier decided.
C10_Witness ==
    /\ route_call.called
    /\ route_call.attempts = <<"bert", "llm", "keyword">>
    /\ route_call.raised = {"bert", "llm"}
    /\ route_call.query = <<"hello">>
    /\ ~route_call.context.has_vector_store /\ ~route_call.context.has_database
    /\ route_call.context.follow_up_info.last_route = "vector_search"
    /\ route_call.decision.type = "direct_llm"

\* C25: route_query never returns a route that needs an unavailable source:
\* neither vector_search nor hybrid_search when has_vector_store is false, and
\* neither database_search nor hybrid_search when has_database is false.
C25_RouteNeedsOnlyAvailableSources ==
    route_call.called =>
        /\ route_call.decision.type \in {"vector_search", "hybrid_search"}
              => route_call.context.has_vector_store
        /\ route_call.decision.type \in {"database_search", "hybrid_search"}
              => route_call.context.has_database

\* What holds of the code: only a hybrid_search of the keyword tier is returned
\* without the vector store it needs.
OnlyKeywordHybridLacksItsSource ==
    route_call.called =>
        /\ route_call.decision.type = "vector_search" => route_call.context.has_vector_store
        /\ route_call.decision.type \in {"database_search", "hybrid_search"}
              => route_call.context.has_database
        /\ (route_call.decision.type = "hybrid_search" /\ route_call.decision.tier # "keyword")
              => route_call.context.has_vector_store

\* The route type of the decision as its tier made it: what the model tiers map
\* the decision's classification to.
TypeAsRouted ==
    IF route_call.decision.tier = "keyword" THEN route_call.decision.type
    ELSE MapClassificationToRoute(route_call.decision.tier, route_call.decision.classification,
                                  route_call.decision.confidence, route_call.context).type

\* The annotation is there only for a follow-up of confidence above 0.8 whose last
\* classification differs from the decision's, and the type is the tier's.
AnnotationIsBookkeeping ==
    route_call.called =>
        LET follow_up_info == route_call.context.follow_up_info
            parameters == route_call.decision.parameters
        IN  /\ parameters.route_adjustment = "follow_up_bias" =>
                  /\ follow_up_info.is_follow_up /\ follow_up_info.confidence > 8
                  /\ follow_up_info.last_classification # route_call.decision.classification
            /\ route_call.decision.type = TypeAsRouted

\* C19 as claimed: whichever tier decided, a follow-up of confidence above 0.7
\* whose last metadata carries a classification has that classification recorded
\* as inherited in the decision's parameters; the follow_up_bias annotation is
\* there only for confidence above 0.8 and differing classifications, and the
\* decision's type is the one the tier chose.
C19_InheritedClassificationRecorded ==
    /\ AnnotationIsBookkeeping
    /\ route_call.called =>
          LET follow_up_info == route_call.context.follow_up_info
          IN  ( /\ follow_up_info.is_follow_up /\ follow_up_info.confidence > 7
                /\ follow_up_info.last_classification # "none" )
                 => route_call.decision.parameters.inherited_classification
                        = follow_up_info.last_classification

\* C19 as the code has it: the inherited classification is recorded, together with
\* the follow_up_bias annotation and the original classification, exactly when a
\* model tier decided, the follow-up has confidence above 0.8 and the last
\* metadata carries a classification other than the decision's; a decision of the
\* keyword tier records nothing; the decision's type is the one the tier chose.
C19_InheritedRecordedWithAnnotation ==
    /\ AnnotationIsBookkeeping
    /\ route_call.called =>
          LET follow_up_info == route_call.context.follow_up_info
              decision == route_call.decision
              annotated == /\ decision.tier \in {"bert", "llm"}
                           /\ follow_up_info.is_follow_up /\ follow_up_info.confidence > 8
                           /\ follow_up_info.last_classification # "none"
                           /\ follow_up_info.last_classification # decision.classification
          IN  /\ annotated =>
                    /\ decision.parameters.route_adjustment = "follow_up_bias"
                    /\ decision.parameters.inherited_classification
                           = follow_up_info.last_classification
                    /\ decision.parameters.original_classification = decision.classification
              /\ ~annotated =>
                    /\ decision.parameters.route_adjustment = "none"
                    /\ decision.parameters.inherited_classification = "none"
              /\ decision.tier = "keyword" => decision.parameters = NoParameters

\* A model tier decided on a follow-up of confidence 0.8 whose last classification
\* differs from the decision's: the parameters are written, without the annotation.
C19_Witness ==
    /\ route_call.called
    /\ route_call.decision.tier \in {"bert", "llm"}
    /\ route_call.context.follow_up_info.is_follow_up
    /\ route_call.context.follow_up_info.confidence = 8
    /\ route_call.context.follow_up_info.last_classification = "observation_query"
    /\ route_call.decision.classification = "general_knowledge"
    /\ route_call.decision.parameters.enhanced
    /\ route_call.decision.parameters.route_adjustment = "none"

(***************************************************************************)
(* Pipeline orchestrator: setup and add_documents                          *)
(***************************************************************************)

\* How many documents the pipeline's list and the index grow to.
MaxDocuments == 3

\* What the documents of the document directory process into.
DirectoryDocuments == <<"a.pdf", "b.pdf">>

\* What the steps of one setup call do, given in the order the steps run.
\*   core:       construction of loader, processor, embeddings, LLM wrapper, RAG engine
\*   documents:  load_local_documents / process_documents
\*   vector:     VectorStoreManager(...) and setup_vectorstore
\*   additional: router, ocean query system, conversation manager, RAG engine mode
\*   models:     whether the classifier and the LLM client of the router could be set up
\*   max_history: the configured conversation.max_history_length
SetupOutcomes ==
    [core : {"ok", "raise"},
     documents : {"raise", "none_found", "none_processed", "processed"},
     vector : {"raise", "failed", "ok"},
     additional : {"ok", "raise_router", "raise_rag_mode"},
     models : BOOLEAN,
     max_history : {1, 10},
     force_rebuild : BOOLEAN]

\* The outcomes that differ in a step that runs.
RelevantSetupOutcome(o) ==
    /\ o.core = "raise" =>
          o.documents = "raise" /\ o.vector = "raise" /\ o.additional = "ok"
    /\ o.documents # "processed" => o.vector = "raise"
    /\ (o.core = "raise" \/ o.additional = "raise_router") =>
          o.models /\ o.max_history = 10 /\ ~o.force_rebuild

\* setup writes to the configuration manager; the other subsystems it leaves alone.
setupOthers ==
    <<cacheVars, authVars, chatVars, apiVars, dateVars, formatVars, adminVars, searchVars,
      extractVars, bootstrapVars, raceVars, saveVars, loadVars, endpointVars>>

\* The configuration files a pipeline is constructed with: one without a
\* vector_store section, and one with the section for either force_rebuild.
ConfigFiles ==
    {[has_section |-> FALSE, force_rebuild |-> FALSE],
     [has_section |-> TRUE, force_rebuild |-> FALSE],
     [has_section |-> TRUE, force_rebuild |-> TRUE]}

\* ConfigManager(config_path): _config is what the file holds
LoadConfig(file) ==
    [has_section |-> file.has_section, file_force_rebuild |-> file.force_rebuild,
     force_rebuild |-> file.force_rebuild]

ConfigInit == config = LoadConfig([has_section |-> TRUE, force_rebuild |-> FALSE])

PipelineInit ==
    /\ pipeline = [is_setup |-> FALSE, documents_loaded |-> FALSE, vector_store_ready |-> FALSE,
                   core_components |-> FALSE, vector_store_manager |-> "none",
                   query_router |-> FALSE, ocean_query_system |-> FALSE,
                   conversation_manager |-> FALSE, max_history_length |-> 0]
    /\ documents = <<>>
    /\ vector_index = <<>>
    /\ conversation_history = <<>>
    /\ conversation_log = <<>>
    /\ pipeline_call = [op |-> "none"]

\* A setup that also fails when _setup_documents reports a failure.
SetupCompletesIfDocumentsLoad(o) ==
    o.core = "ok" /\ o.documents # "raise" /\ o.additional = "ok"

\* Whether setup runs to its end (is_setup = True; return True): no exception left
\* _setup_core_components or _setup_additional_components.  _setup_documents and
\* _setup_vector_store handle their own exceptions.
SetupCompletes(o) == o.core = "ok" /\ o.additional = "ok"

\* setup(doc_dir, force_rebuild): the four steps in order; an exception that leaves
\* a step ends the call with False, and what was assigned before stays assigned.
Setup(o) ==
    /\ RelevantSetupOutcome(o)
    /\ LET core_ok == o.core = "ok"
           \* _setup_documents: its own handler turns an exception into False
           success == core_ok /\ o.documents # "raise"
           p2 == IF ~core_ok THEN pipeline
                 ELSE IF o.documents = "raise" THEN [pipeline EXCEPT !.core_components = TRUE]
                 ELSE [pipeline EXCEPT !.core_components = TRUE,
                                       !.documents_loaded = (o.documents = "processed")]
           docs == IF ~core_ok \/ o.documents \in {"raise", "none_found"} THEN documents
                   ELSE IF o.documents = "processed" THEN DirectoryDocuments
                   ELSE <<>>
           \* _setup_vector_store: its own handler swallows an exception
           run_vector == success /\ p2.documents_loaded
           p3 == IF ~run_vector \/ o.vector = "raise" THEN p2
                 ELSE IF o.vector = "failed" THEN [p2 EXCEPT !.vector_store_manager = "unbuilt"]
                 ELSE [p2 EXCEPT !.vector_store_manager = "built", !.vector_store_ready = TRUE]
           \* _setup_vector_store: the override is written into the dictionary that
           \* get_vector_store_config returns, which is the stored section itself
           overridden == run_vector /\ o.force_rebuild /\ config.has_section
           force_rebuild == o.force_rebuild \/ config.force_rebuild
           \* _create_vectorstore: the existing index is reopened unless the
           \* directory is empty or force_rebuild is set
           rebuilt == run_vector /\ o.vector = "ok" /\ (vector_index = <<>> \/ force_rebuild)
           index == IF rebuilt
                    THEN SubSeq(vector_index \o docs, 1,
                                Min(Len(vector_index \o docs), MaxDocuments))
                    ELSE vector_index
           \* _setup_additional_components
           additional_ran == core_ok
           built == additional_ran /\ o.additional # "raise_router"
           p4 == IF ~built THEN p3
                 ELSE [p3 EXCEPT !.query_router = TRUE, !.ocean_query_system = TRUE,
                                 !.conversation_manager = TRUE,
                                 !.max_history_length = o.max_history,
                                 !.is_setup = SetupCompletes(o) \/ @]
           raised == {c \in {"core", "documents", "vector_store", "additional"} :
                         \/ c = "core" /\ ~core_ok
                         \/ c = "documents" /\ core_ok /\ o.documents = "raise"
                         \/ c = "vector_store" /\ run_vector /\ o.vector = "raise"
                         \/ c = "additional" /\ additional_ran /\ o.additional # "ok"}
       IN  /\ pipeline' = p4
           /\ documents' = docs
           /\ vector_index' = index
           /\ IF built
              THEN /\ router' = [constructed |-> TRUE, use_bert_routing |-> o.models,
                                 use_llm_routing |-> o.models]
                   /\ route_call' = NoRouteCall
                   /\ conversation_history' = <<>>
                   /\ conversation_log' = <<>>
              ELSE UNCHANGED <<router, route_call, conversation_history, conversation_log>>
           /\ pipeline_call' = [op |-> "setup", outcome |-> o, raised |-> raised,
                                result |-> SetupCompletes(o), rebuilt |-> rebuilt]
           /\ config' = IF overridden THEN [config EXCEPT !.force_rebuild = TRUE] ELSE config
    /\ UNCHANGED setupOthers

\* What one add_documents call meets: what the paths process into (or an
\* exception of the processor), and whether the vector store takes the chunks.
AddOutcomes == [processed : {"raise", "nothing", "new.pdf"}, added : BOOLEAN]

\* An add_documents that reports success when the vector store is not ready.
AddDocumentsSkipIsSuccess(o) ==
    /\ o.processed = "raise" => o.added
    /\ LET ready == pipeline.vector_store_ready
           success == ready /\ pipeline.vector_store_manager = "built" /\ o.added
           took == pipeline.is_setup /\ o.processed = "new.pdf" /\ success
       IN  /\ took => Len(documents) < MaxDocuments /\ Len(vector_index) < MaxDocuments
           /\ documents' = IF took THEN Append(documents, o.processed) ELSE documents
           /\ vector_index' = IF took THEN Append(vector_index, o.processed) ELSE vector_index
           /\ pipeline_call' = [op |-> "add_documents", outcome |-> o,
                                vector_store_ready |-> ready,
                                result |-> pipeline.is_setup /\ o.processed = "new.pdf"
                                           /\ (ready => success)]
    /\ UNCHANGED <<pipeline, conversation_history, conversation_log>>
    /\ UNCHANGED routerVars
    /\ UNCHANGED pipelineOthers

\* add_documents(file_paths)
AddDocuments(o) ==
    /\ o.processed = "raise" => o.added
    /\ LET ready == pipeline.vector_store_ready
           \* vector_store_manager.add_documents(new_documents)
           success == ready /\ pipeline.vector_store_manager = "built" /\ o.added
           took == pipeline.is_setup /\ o.processed = "new.pdf" /\ success
       IN  /\ took => Len(documents) < MaxDocuments /\ Len(vector_index) < MaxDocuments
           /\ documents' = IF took THEN Append(documents, o.processed) ELSE documents
           /\ vector_index' = IF took THEN Append(vector_index, o.processed) ELSE vector_index
           /\ pipeline_call' = [op |-> "add_documents", outcome |-> o,
                                vector_store_ready |-> ready,
                                result |-> took]
    /\ UNCHANGED <<pipeline, conversation_history, conversation_log>>
    /\ UNCHANGED routerVars
    /\ UNCHANGED pipelineOthers

NextPipeline ==
    \/ \E o \in SetupOutcomes : Setup(o)
    \/ \E o \in AddOutcomes : AddDocuments(o)

\* ONCPipeline(config_path): a new pipeline over the same persistence directory
PipelineConstruct(file) ==
    /\ config' = LoadConfig(file)
    /\ pipeline' = [is_setup |-> FALSE, documents_loaded |-> FALSE, vector_store_ready |-> FALSE,
                    core_components |-> FALSE, vector_store_manager |-> "none",
                    query_router |-> FALSE, ocean_query_system |-> FALSE,
                    conversation_manager |-> FALSE, max_history_length |-> 0]
    /\ documents' = <<>>
    /\ conversation_history' = <<>>
    /\ conversation_log' = <<>>
    /\ pipeline_call' = [op |-> "ONCPipeline"]
    /\ UNCHANGED vector_index
    /\ UNCHANGED routerVars
    /\ UNCHANGED setupOthers

\* The ways setup goes in the runs that look at the configuration: every step
\* completes or the vector store step fails, with and without the override.
ConfigSetupOutcomes ==
    {o \in SetupOutcomes :
        /\ o.core = "ok" /\ o.additional = "ok" /\ o.models /\ o.max_history = 10
        /\ o.documents \in {"processed", "none_found"}}

NextConfig ==
    \/ \E file \in ConfigFiles : PipelineConstruct(file)
    \/ \E o \in ConfigSetupOutcomes : Setup(o)

\* C30: a force_rebuild override passed to one setup call leaves the stored
\* configuration unchanged, and a later setup without the override, on a
\* pipeline whose configuration file has vector_store.force_rebuild false and
\* whose persistence directory is not empty, reopens the existing index instead
\* of rebuilding it.
C30_OverrideAffectsOneSetupOnly ==
    [][pipeline_call'.op = "setup" =>
          /\ config' = config
          /\ ( /\ pipeline'.vector_store_ready /\ pipeline_call'.outcome.vector = "ok"
               /\ ~pipeline_call'.outcome.force_rebuild
               /\ ~config.file_force_rebuild
               /\ vector_index # <<>> )
                => ~pipeline_call'.rebuilt /\ vector_index' = vector_index]_vars

\* What holds of the code: the override stays out of the stored settings only
\* when the file has no vector_store section, and a setup without the override
\* reopens a non-empty index when the stored force_rebuild is false.
OverrideStaysInStoredSection ==
    [][pipeline_call'.op = "setup" =>
          /\ ~config.has_section => config' = config
          /\ config'.file_force_rebuild = config.file_force_rebuild
          /\ ( /\ pipeline_call'.outcome.vector = "ok" /\ pipeline_call'.outcome.documents = "processed"
               /\ ~pipeline_call'.outcome.force_rebuild
               /\ ~config.force_rebuild
               /\ vector_index # <<>> )
                => ~pipeline_call'.rebuilt /\ vector_index' = vector_index]_vars

(***************************************************************************)
(* Pipeline orchestrator: query, and the conversation manager              *)
(***************************************************************************)

\* How many messages one conversation records before it is cleared.
MaxMessages == 4

\* _trim_history: keep the last 2 * max_history_length messages (a slice [-0:]
\* keeps the whole list).
TrimHistory(history, max_history_length) ==
    LET messages_to_keep == max_history_length * 2
    IN  IF Len(history) > messages_to_keep /\ messages_to_keep > 0
        THEN LastN(history, messages_to_keep)
        ELSE history

\* add_user_message / add_assistant_message: append, then trim.
AddMessage(history, type, content, metadata, max_history_length) ==
    TrimHistory(Append(history, [type |-> type, content |-> content, metadata |-> metadata]),
                max_history_length)

\* A detection that calls every query with an indicator a follow-up, whether
\* or not there is a history.
DetectFollowUpWithoutHistory(current_query, history) ==
    LET has_indicators == \E i \in 1..Len(current_query) : "it" \in WordContains(current_query[i])
        has_recent_context == Len(history) > 0
    IN  [is_follow_up |-> has_indicators,
         confidence |-> Min(10, (IF has_indicators THEN 5 ELSE 0)
                                 + (IF Len(current_query) <= 5 THEN 2 ELSE 0)
                                 + (IF has_recent_context THEN 3 ELSE 0)),
         last_route |-> "none", last_classification |-> "none"]

\* detect_follow_up_question(current_query), with get_last_query_info and
\* _calculate_follow_up_confidence (in tenths).  last_route and last_classification
\* are the route_type and classification of the last user message's metadata.
DetectFollowUpQuestion(current_query, history) ==
    LET follow_up_indicators ==
            {"it", "that", "this", "them", "those", "there", "also", "more", "again",
             "further", "additional", "when", "before", "after", "since", "during",
             "compared to", "vs", "versus", "difference", "what about", "how about", "what if"}
        has_indicators == KeywordMatches(current_query, follow_up_indicators) >= 1
        is_short == Len(current_query) <= 5
        has_recent_context == Len(history) > 0
        asked == {i \in 1..Len(history) : history[i].type = "user"}
        last_user == CHOOSE i \in asked : \A j \in asked : j <= i
    IN  [is_follow_up |-> has_indicators /\ has_recent_context,
         confidence |-> Min(10, (IF has_indicators THEN 5 ELSE 0) + (IF is_short THEN 2 ELSE 0)
                                 + (IF has_recent_context THEN 3 ELSE 0)),
         last_route |-> IF asked = {} THEN "none" ELSE history[last_user].metadata.route_type,
         last_classification |->
             IF asked = {} \/ history[last_user].metadata.route_type = "none" THEN "none"
             ELSE history[last_user].metadata.classification]

\* detect_follow_up_question, its context_info: the content and the metadata of
\* the last user message of the history, when the history has one.
ContextInfo(history) ==
    LET asked == {i \in 1..Len(history) : history[i].type = "user"}
        last_user == CHOOSE i \in asked : \A j \in asked : j <= i
    IN  IF Len(history) > 0 /\ asked # {}
        THEN [present |-> TRUE, last_query |-> history[last_user].content,
              last_metadata |-> history[last_user].metadata]
        ELSE [present |-> FALSE, last_query |-> <<>>,
              last_metadata |-> [route_type |-> "none", classification |-> "",
                                 confidence |-> "", is_follow_up |-> FALSE]]

\* What one query meets outside the pipeline: how many documents the retriever
\* returns (or that retrieve_documents raises), whether the cross-encoder can be
\* loaded and run, what the ocean query
\* system answers (or that it raises), and whether the LLM call of the RAG engine
\* fails (the engine then returns its own apology text).
QueryEnvironments ==
    {[retriever |-> "ok", retrieved |-> 2, cross_encoder |-> "ok", ocean |-> "success",
      llm |-> "ok"],
     [retriever |-> "ok", retrieved |-> 2, cross_encoder |-> "raise", ocean |-> "no_data",
      llm |-> "ok"],
     [retriever |-> "ok", retrieved |-> 0, cross_encoder |-> "ok", ocean |-> "error",
      llm |-> "ok"],
     [retriever |-> "ok", retrieved |-> 2, cross_encoder |-> "ok", ocean |-> "raise",
      llm |-> "fails"],
     [retriever |-> "raise", retrieved |-> 0, cross_encoder |-> "ok", ocean |-> "raise",
      llm |-> "ok"]}

\* rag_engine.process_rag_query / process_direct_query: the answer, or the
\* engine's apology when the LLM call fails.
EngineAnswer(mode, env) == IF env.llm = "ok" THEN mode ELSE "engine_apology"

\* The branch of query for a routing type: the text returned, or "raise" when an
\* exception leaves the branch.
ProcessQuery(type, env) ==
    LET direct == EngineAnswer("direct_answer", env)
        ocean_ok == pipeline.ocean_query_system /\ env.ocean \in {"success", "no_data"}
        ocean_response == IF env.ocean = "success" THEN "ocean_answer" ELSE "ocean_no_data"
    IN  IF type = "vector_search"
        THEN IF ~pipeline.vector_store_ready THEN direct
             ELSE IF env.retriever = "raise" \/ env.cross_encoder = "raise" THEN "raise"
             ELSE EngineAnswer("rag_answer", env)
        ELSE IF type = "database_search"
        THEN IF ocean_ok THEN ocean_response ELSE direct
        ELSE IF type = "hybrid_search"
        THEN IF pipeline.vector_store_ready /\ env.retriever = "raise" THEN "raise"
             ELSE IF ocean_ok THEN ocean_response
             ELSE IF pipeline.vector_store_ready /\ env.retrieved > 0
                  THEN EngineAnswer("rag_answer", env)
             ELSE direct
        ELSE direct

\* A query that lets the exception of a step pass to its caller.
ReraiseException(e) == e

\* The handler of query: the apology text that embeds the exception's text.
HandleException(e) == "pipeline_apology"

\* query(question, context) on a set-up pipeline
Query(question, bert, llm, env) ==
    /\ pipeline.is_setup
    /\ Len(conversation_log) + 2 <= MaxMessages
    /\ LET max == pipeline.max_history_length
           no_metadata == [route_type |-> "none", classification |-> "", confidence |-> "",
                           is_follow_up |-> FALSE]
           asked == AddMessage(conversation_history, "user", question, no_metadata, max)
           follow_up_info == DetectFollowUpQuestion(question, asked)
           routing_context == [has_vector_store |-> pipeline.vector_store_ready,
                               has_database |-> pipeline.ocean_query_system,
                               conversation_context |-> asked # <<>>,
                               follow_up_info |-> follow_up_info]
           routed == RouteQuery(router, question, routing_context, bert, llm)
           response == ProcessQuery(routed.decision.type, env)
           response_metadata == [route_type |-> routed.decision.type,
                                 classification |-> routed.decision.classification,
                                 confidence |-> routed.decision.confidence,
                                 is_follow_up |-> follow_up_info.is_follow_up]
       IN  /\ route_call' = [called |-> TRUE, query |-> question, context |-> routing_context,
                             decision |-> routed.decision, attempts |-> routed.attempts,
                             raised |-> routed.raised]
           /\ IF response = "raise"
              THEN /\ conversation_history' = asked
                   /\ conversation_log' =
                          Append(conversation_log,
                                 [type |-> "user", content |-> question, metadata |-> no_metadata])
                   /\ pipeline_call' = [op |-> "query", question |-> question,
                                        result |-> HandleException(response),
                                        raised |-> TRUE,
                                        context_info |-> ContextInfo(asked)]
              ELSE /\ conversation_history' =
                          AddMessage(asked, "assistant", response, response_metadata, max)
                   /\ conversation_log' =
                          conversation_log \o
                             <<[type |-> "user", content |-> question, metadata |-> no_metadata],
                               [type |-> "assistant", content |-> response,
                                metadata |-> response_metadata]>>
                   /\ pipeline_call' = [op |-> "query", question |-> question,
                                        result |-> response, raised |-> FALSE,
                                        context_info |-> ContextInfo(asked)]
    /\ UNCHANGED <<pipeline, documents, vector_index, router>>
    /\ UNCHANGED pipelineOthers

\* query(question, context) on a pipeline that is not set up: the ValueError
\* leaves the call before anything is read or written.
QueryBeforeSetup(question) ==
    /\ ~pipeline.is_setup
    /\ pipeline_call' = [op |-> "query", question |-> question,
                         result |-> "ValueError", raised |-> TRUE]
    /\ UNCHANGED <<pipeline, documents, vector_index, conversation_history, conversation_log>>
    /\ UNCHANGED routerVars
    /\ UNCHANGED pipelineOthers

\* clear_conversation()
ClearConversation ==
    /\ pipeline.conversation_manager
    /\ conversation_history' = <<>>
    /\ conversation_log' = <<>>
    /\ pipeline_call' = [op |-> "clear_conversation"]
    /\ UNCHANGED <<pipeline, documents, vector_index>>
    /\ UNCHANGED routerVars
    /\ UNCHANGED pipelineOthers

\* The ways setup goes in the runs that look at query: it completes, with or
\* without documents and a vector store, with or without the router's models.
QuerySetupOutcomes ==
    {o \in SetupOutcomes :
        /\ o.core = "ok" /\ o.additional = "ok" /\ ~o.force_rebuild /\ o.max_history = 1
        /\ \/ o.documents = "processed" /\ o.vector = "ok"
           \/ o.documents = "none_found" /\ o.vector = "raise"}

QueryQuestions == {<<"hello">>, <<"it", "yesterday">>}

NextQuery ==
    \/ \E o \in QuerySetupOutcomes : Setup(o)
    \/ \E question \in QueryQuestions, env \in QueryEnvironments,
          bert \in (IF router.use_bert_routing
                    THEN {b \in BertOutcomes :
                             b.label \in {"", "deployment_info", "general_knowledge"}}
                    ELSE {TierUnused}) :
          \E llm \in (IF router.use_llm_routing /\ (~router.use_bert_routing \/ bert.raised)
                       THEN {l \in LlmOutcomes : l.label \in {"", "i am not sure"}}
                       ELSE {TierUnused}) :
              Query(question, bert, llm, env)
    \/ ClearConversation

\* C2: every query call on a set-up pipeline that returns a text, on whatever path,
\* extends the messages added to the conversation by exactly one user message
\* holding the question followed by one assistant message holding the returned
\* text with its routing metadata.
C2_QueryRecordsUserThenAssistant ==
    [][pipeline_call'.op = "query" =>
          /\ Len(conversation_log') = Len(conversation_log) + 2
          /\ SubSeq(conversation_log', 1, Len(conversation_log)) = conversation_log
          /\ LET u == conversation_log'[Len(conversation_log) + 1]
                 a == conversation_log'[Len(conversation_log) + 2]
             IN  /\ u.type = "user" /\ u.content = pipeline_call'.question
                 /\ a.type = "assistant" /\ a.content = pipeline_call'.result
                 /\ a.metadata.route_type = route_call'.decision.type]_vars

\* C2, its consequence: user and assistant messages alternate in the messages added.
C2_MessagesAlternate ==
    \A i \in 1..Len(conversation_log) :
        conversation_log[i].type = (IF i % 2 = 1 THEN "user" ELSE "assistant")

\* What holds of the code: a query that returns a text without an exception having
\* reached the handler of query records the user message and then the assistant's.
QueryRecordsUnlessExceptionCaught ==
    [][(pipeline_call'.op = "query" /\ ~pipeline_call'.raised) =>
          /\ Len(conversation_log') = Len(conversation_log) + 2
          /\ conversation_log'[Len(conversation_log) + 1].type = "user"
          /\ conversation_log'[Len(conversation_log) + 2].content = pipeline_call'.result]_vars

\* C26: the follow-up information query passes to the router is evaluated
\* against the conversation as it was before the current question was recorded:
\* for the first question of a session with an empty history is_follow_up is
\* false, and for a later question context_info's last_query and last_metadata
\* are those of the previous turn's user message.
C26_FollowUpSeesEarlierTurnsOnly ==
    [][(pipeline_call'.op = "query" /\ pipeline.is_setup) =>
          IF conversation_history = <<>>
          THEN ~route_call'.context.follow_up_info.is_follow_up
          ELSE /\ pipeline_call'.context_info.last_query
                     = ContextInfo(conversation_history).last_query
               /\ pipeline_call'.context_info.last_metadata
                     = ContextInfo(conversation_history).last_metadata]_vars

\* What holds of the code: the current question is part of the history the
\* detection reads, so last_query is the current question, and a question with an
\* indicator is a follow-up whether or not anything was asked before it.
FollowUpSeesCurrentQuestion ==
    [][(pipeline_call'.op = "query" /\ pipeline.is_setup) =>
          /\ pipeline_call'.context_info.present
          /\ pipeline_call'.context_info.last_query = pipeline_call'.question
          /\ route_call'.context.follow_up_info.is_follow_up
                <=> pipeline_call'.question = <<"it", "yesterday">>]_vars

\* The ways setup goes in the runs that look at query before and after setup: the
\* completing ones, and those an exception of a step ends.
ReadySetupOutcomes ==
    QuerySetupOutcomes \cup
    {o \in SetupOutcomes :
        /\ ~SetupCompletes(o) /\ o.models /\ o.max_history = 10 /\ ~o.force_rebuild
        /\ \/ o.core = "raise"
           \/ o.documents = "processed" /\ o.vector = "ok"}

NextReady ==
    \/ \E o \in ReadySetupOutcomes : Setup(o)
    \/ \E question \in QueryQuestions : QueryBeforeSetup(question)
    \/ \E question \in QueryQuestions, env \in QueryEnvironments,
          bert \in (IF router.use_bert_routing
                    THEN {b \in BertOutcomes : b.label \in {"", "general_knowledge"}}
                    ELSE {TierUnused}) :
          \E llm \in (IF router.use_llm_routing /\ (~router.use_bert_routing \/ bert.raised)
                       THEN {l \in LlmOutcomes : l.label \in {"", "i am not sure"}}
                       ELSE {TierUnused}) :
              Query(question, bert, llm, env)
    \/ ClearConversation

\* The texts query returns: the answers of the four branches, the apology of the
\* RAG engine, and the apology of query's own handler.
QueryTexts ==
    {"direct_answer", "rag_answer", "engine_apology", "ocean_answer", "ocean_no_data",
     "pipeline_apology"}

\* C16: a query on a pipeline that no setup has completed ends with the not-ready
\* ValueError and leaves the pipeline, its documents, its router and the
\* conversation as they were; a query on a set-up pipeline always returns a text,
\* which is the apology of its handler exactly when an exception left a step.
C16_QueryNotReadyOrReturnsText ==
    [][pipeline_call'.op = "query" =>
          IF ~pipeline.is_setup
          THEN /\ pipeline_call'.result = "ValueError"
               /\ UNCHANGED <<pipeline, documents, vector_index, router,
                              conversation_history, conversation_log>>
          ELSE /\ pipeline_call'.result \in QueryTexts
               /\ pipeline_call'.raised <=> pipeline_call'.result = "pipeline_apology"]_vars

\* C16: a query on a set-up pipeline with a vector store met an exception of the
\* retriever or the cross-encoder and returned the apology, after an earlier
\* setup had failed.
C16_Witness ==
    /\ pipeline_call.op = "query"
    /\ pipeline.is_setup /\ pipeline.vector_store_ready
    /\ pipeline_call.raised
    /\ pipeline_call.result = "pipeline_apology"

\* C7 as claimed: if any step of setup raises, setup returns False and does not set
\* is_setup; setup returns True only when no step raised.
C7_AnySetupExceptionFails ==
    [][pipeline_call'.op = "setup" =>
          /\ pipeline_call'.raised # {} =>
                ~pipeline_call'.result /\ pipeline'.is_setup = pipeline.is_setup
          /\ pipeline_call'.result => pipeline_call'.raised = {}]_vars

\* C7 as the code has it: an exception in core-component construction or in the
\* construction of router / ocean system / conversation manager makes setup return
\* False without setting is_setup; an exception in document loading or processing
\* or in the vector-store step is handled inside that step, and setup returns True
\* and sets is_setup exactly when neither of the other two steps raised.
C7_OnlyCoreAndAdditionalExceptionsFail ==
    [][pipeline_call'.op = "setup" =>
          LET fatal == pipeline_call'.raised \cap {"core", "additional"}
          IN  /\ fatal # {} => ~pipeline_call'.result /\ pipeline'.is_setup = pipeline.is_setup
              /\ fatal = {} => pipeline_call'.result /\ pipeline'.is_setup]_vars

\* A setup call in which document loading raised and which returned True.
C7_Witness ==
    /\ pipeline_call.op = "setup"
    /\ pipeline_call.raised = {"documents"}
    /\ pipeline_call.result
    /\ pipeline.is_setup
    /\ ~pipeline.vector_store_ready

\* C8 as claimed: add_documents on a set-up pipeline whose vector store is not ready,
\* with paths that process into a document, returns True and leaves the document
\* list and the vector index unchanged.
C8_AddWithoutStoreIsNoOpSuccess ==
    [][( /\ pipeline_call'.op = "add_documents"
         /\ pipeline.is_setup /\ ~pipeline.vector_store_ready
         /\ pipeline_call'.outcome.processed = "new.pdf" ) =>
            /\ pipeline_call'.result
            /\ documents' = documents /\ vector_index' = vector_index]_vars

\* C8 as the code has it: the call returns False and leaves the document list and
\* the vector index unchanged.
C8_AddWithoutStoreIsNoOpFailure ==
    [][( /\ pipeline_call'.op = "add_documents"
         /\ pipeline.is_setup /\ ~pipeline.vector_store_ready
         /\ pipeline_call'.outcome.processed = "new.pdf" ) =>
            /\ ~pipeline_call'.result
            /\ documents' = documents /\ vector_index' = vector_index]_vars

\* add_documents was called on a set-up pipeline without a vector store, with a
\* path that processes into a document, and returned False.
C8_Witness ==
    /\ pipeline_call.op = "add_documents"
    /\ pipeline.is_setup /\ ~pipeline.vector_store_ready
    /\ ~pipeline_call.vector_store_ready
    /\ pipeline_call.outcome.processed = "new.pdf"
    /\ ~pipeline_call.result

(***************************************************************************)
(* Conversation manager on its own                                         *)
(***************************************************************************)

\* The largest max_history_length a manager is constructed with.
MaxHistoryLength == 2

NoMetadata == [route_type |-> "none", classification |-> "", confidence |-> "",
               is_follow_up |-> FALSE]

\* ConversationManager(max_history_length)
ConversationManagerInit(max_history_length) ==
    /\ pipeline' = [pipeline EXCEPT !.conversation_manager = TRUE,
                                    !.max_history_length = max_history_length]
    /\ conversation_history' = <<>>
    /\ conversation_log' = <<>>
    /\ pipeline_call' = [op |-> "ConversationManager"]
    /\ UNCHANGED <<documents, vector_index>>
    /\ UNCHANGED routerVars
    /\ UNCHANGED pipelineOthers

\* add_user_message(message) / add_assistant_message(message)
ManagerAddMessage(type, message) ==
    /\ pipeline.conversation_manager
    /\ Len(conversation_log) < MaxMessages
    /\ conversation_history' =
          AddMessage(conversation_history, type, message, NoMetadata,
                     pipeline.max_history_length)
    /\ conversation_log' =
          Append(conversation_log, [type |-> type, content |-> message, metadata |-> NoMetadata])
    /\ pipeline_call' = [op |-> "add_message"]
    /\ UNCHANGED <<pipeline, documents, vector_index>>
    /\ UNCHANGED routerVars
    /\ UNCHANGED pipelineOthers

\* The queries detect_follow_up_question is asked about: of at most five words
\* and of more, with and without an indicator.
DetectQueries ==
    QueryQuestions
    \cup {<<"what", "is", "the", "temperature", "hello", "yesterday">>,
          <<"what", "is", "the", "temperature", "it", "yesterday">>}

\* detect_follow_up_question(current_query)
ManagerDetectFollowUp(current_query) ==
    /\ pipeline.conversation_manager
    /\ pipeline_call' = [op |-> "detect_follow_up_question", query |-> current_query,
                         result |-> DetectFollowUpQuestion(current_query, conversation_history)]
    /\ UNCHANGED <<pipeline, documents, vector_index, conversation_history, conversation_log>>
    /\ UNCHANGED routerVars
    /\ UNCHANGED pipelineOthers

NextConversation ==
    \/ \E max_history_length \in 0..MaxHistoryLength :
          ConversationManagerInit(max_history_length)
    \/ \E type \in {"user", "assistant"}, message \in QueryQuestions :
          ManagerAddMessage(type, message)
    \/ \E current_query \in DetectQueries : ManagerDetectFollowUp(current_query)
    \/ ClearConversation

\* The history is the most recent 2 * max_history_length of the messages added
\* (all of them when fewer were added).
HistoryIsRecentSuffix ==
    LET keep == Min(Len(conversation_log), 2 * pipeline.max_history_length)
    IN  /\ Len(conversation_history) <= 2 * pipeline.max_history_length
        /\ conversation_history = LastN(conversation_log, keep)

\* C11: for every non-negative max_history_length, after any sequence of
\* add_user_message / add_assistant_message calls the history holds at most
\* 2 * max_history_length messages and is the most recent suffix of the
\* messages added since construction or the last clear.
C11_HistoryIsBoundedRecentSuffix == pipeline.conversation_manager => HistoryIsRecentSuffix

\* What holds of the code: the same for every positive max_history_length.
HistoryIsBoundedWhenPositive ==
    (pipeline.conversation_manager /\ pipeline.max_history_length > 0) => HistoryIsRecentSuffix

\* C12: for the eight combinations of indicator present or absent, query of at
\* most five words or of more, and history non-empty or empty,
\* detect_follow_up_question returns a confidence in [0, 1] that is the sum of
\* the applicable weights 0.5, 0.2 and 0.3 capped at 1.0 (in tenths), and
\* is_follow_up exactly when an indicator is present and the history is
\* non-empty.
C12_FollowUpConfidenceAndFlag ==
    pipeline_call.op = "detect_follow_up_question" =>
        LET indicator == \E i \in 1..Len(pipeline_call.query) : pipeline_call.query[i] = "it"
            short == Len(pipeline_call.query) <= 5
            history == conversation_history # <<>>
            expected ==
                CASE indicator /\ short /\ history -> 10
                  [] indicator /\ short /\ ~history -> 7
                  [] indicator /\ ~short /\ history -> 8
                  [] indicator /\ ~short /\ ~history -> 5
                  [] ~indicator /\ short /\ history -> 5
                  [] ~indicator /\ short /\ ~history -> 2
                  [] ~indicator /\ ~short /\ history -> 3
                  [] ~indicator /\ ~short /\ ~history -> 0
        IN  /\ pipeline_call.result.confidence = expected
            /\ pipeline_call.result.confidence \in 0..10
            /\ pipeline_call.result.is_follow_up = (indicator /\ history)

\* A long query with an indicator asked on an empty history: confidence 0.5 and
\* no follow-up.
C12_Witness ==
    /\ pipeline_call.op = "detect_follow_up_question"
    /\ Len(pipeline_call.query) > 5
    /\ conversation_history = <<>>
    /\ pipeline_call.result.confidence = 5
    /\ ~pipeline_call.result.is_follow_up

(***************************************************************************)
(* Conversation manager: loading a saved conversation                      *)
(***************************************************************************)

loadOthers ==
    <<cacheVars, authVars, chatVars, apiVars, routerVars, pipelineVars, dateVars, formatVars,
      adminVars, searchVars, extractVars, bootstrapVars, raceVars, saveVars,
      endpointVars,
      configVars>>

\* How many load_conversation calls one manager sees.
MaxLoads == 3

\* How many messages a conversation file holds at most.
MaxFileMessages == 2

\* A JSON value that is absent from its object.
Missing == <<"missing", 0>>

\* The time strings of a file: ISO texts of two instants, and a text that is none.
IsoTexts == {<<"iso", 1>>, <<"iso", 2>>}

NotIsoText == <<"text", 0>>

\* datetime.fromisoformat(s): the instant, or ValueError (TypeError for no string)
FromIsoFormatRaises(s) == s[1] # "iso"

FromIsoFormat(s) == s[2]

\* The message objects of a file: well-formed ones, one whose type is no
\* MessageType, one without content, and one whose timestamp is no ISO text.
FileMessages ==
    {[type |-> "user", content |-> <<"q">>, timestamp |-> <<"iso", 1>>],
     [type |-> "assistant", content |-> <<"a">>, timestamp |-> <<"iso", 2>>],
     [type |-> "bot", content |-> <<"a">>, timestamp |-> <<"iso", 2>>],
     [type |-> "user", content |-> Missing, timestamp |-> <<"iso", 1>>],
     [type |-> "user", content |-> <<"q">>, timestamp |-> NotIsoText]}

\* ConversationMessage.from_dict(data) raises: MessageType(data['type']),
\* data['content'], datetime.fromisoformat(data['timestamp'])
FromDictRaises(data) ==
    \/ data.type \notin {"user", "assistant", "system"}
    \/ data.content = Missing
    \/ FromIsoFormatRaises(data.timestamp)

FromDict(data) ==
    [type |-> data.type, content |-> data.content,
     timestamp |-> FromIsoFormat(data.timestamp)]

\* The metadata entry of a file: absent, null, or an object with both settings,
\* with one, or with none.
FileMetadata ==
    {[kind |-> "absent", max_history_length |-> 0, context_window_minutes |-> 0],
     [kind |-> "null", max_history_length |-> 0, context_window_minutes |-> 0],
     [kind |-> "object", max_history_length |-> 5, context_window_minutes |-> 60],
     [kind |-> "object", max_history_length |-> 5, context_window_minutes |-> 0]}

\* The files load_conversation is pointed at: one that cannot be opened, one
\* that is no JSON, and JSON objects.  A present messages entry is a list.
ConversationFiles ==
    {[kind |-> k, session_start |-> Missing, has_messages |-> FALSE, messages |-> <<>>,
      metadata |-> CHOOSE m \in FileMetadata : m.kind = "absent"] :
         k \in {"unreadable", "invalid_json"}}
    \cup
    {[kind |-> "object", session_start |-> t, has_messages |-> TRUE, messages |-> l,
      metadata |-> m] :
         t \in IsoTexts \cup {NotIsoText, Missing},
         l \in UNION {[1..n -> FileMessages] : n \in 0..MaxFileMessages},
         m \in FileMetadata}
    \cup
    {[kind |-> "object", session_start |-> t, has_messages |-> FALSE, messages |-> <<>>,
      metadata |-> m] :
         t \in IsoTexts \cup {NotIsoText, Missing}, m \in FileMetadata}

\* ConversationManager(): the defaults of the constructor
LoadInit ==
    /\ manager = [conversation_history |-> <<>>, session_start_time |-> 0,
                  max_history_length |-> 10, context_window_minutes |-> 30]
    /\ load_call = [n |-> 0, result |-> FALSE]

\* The state a load_conversation call ends in and what it returns: the
\* assignments made before the first statement that raises stay.
LoadConversationResult(mgr, file) ==
    LET parsed == [i \in 1..Len(file.messages) |-> FromDict(file.messages[i])]
        started == [mgr EXCEPT !.session_start_time = FromIsoFormat(file.session_start)]
        filled == [started EXCEPT !.conversation_history = parsed]
        metadata == file.metadata
        set == [filled EXCEPT
                   !.max_history_length =
                       IF metadata.kind = "object" /\ metadata.max_history_length # 0
                       THEN metadata.max_history_length ELSE @,
                   !.context_window_minutes =
                       IF metadata.kind = "object" /\ metadata.context_window_minutes # 0
                       THEN metadata.context_window_minutes ELSE @]
    IN  IF file.kind # "object" THEN [manager |-> mgr, result |-> FALSE]
        ELSE IF file.session_start = Missing \/ FromIsoFormatRaises(file.session_start)
        THEN [manager |-> mgr, result |-> FALSE]
        ELSE IF ~file.has_messages
                \/ \E i \in 1..Len(file.messages) : FromDictRaises(file.messages[i])
        THEN [manager |-> started, result |-> FALSE]
        ELSE IF metadata.kind = "null"
        THEN [manager |-> filled, result |-> FALSE]
        ELSE [manager |-> set, result |-> TRUE]

\* load_conversation(filepath)
LoadConversation(file) ==
    /\ load_call.n < MaxLoads
    /\ LET outcome == LoadConversationResult(manager, file)
       IN  /\ manager' = outcome.manager
           /\ load_call' = [n |-> load_call.n + 1, result |-> outcome.result]
    /\ UNCHANGED loadOthers

NextLoad == \E file \in ConversationFiles : LoadConversation(file)

\* C27: a load_conversation that returns False leaves conversation_history,
\* session_start_time, max_history_length and context_window_minutes as they
\* were before the call.
C27_FailedLoadChangesNothing ==
    [][(load_call'.n # load_call.n /\ ~load_call'.result) => manager' = manager]_vars

\* What holds of the code: a load that returns False leaves the two settings as
\* they were, and leaves the history as it was unless the file's messages were
\* all well-formed.
FailedLoadKeepsSettings ==
    [][(load_call'.n # load_call.n /\ ~load_call'.result) =>
          /\ manager'.max_history_length = manager.max_history_length
          /\ manager'.context_window_minutes = manager.context_window_minutes
          /\ manager'.conversation_history # manager.conversation_history =>
                \A i \in 1..Len(manager'.conversation_history) :
                    manager'.conversation_history[i].type \in {"user", "assistant", "system"}]_vars

(***************************************************************************)
(* Parameter extractor: resolution of a specific date                      *)
(***************************************************************************)

dateOthers ==
    <<cacheVars, authVars, chatVars, apiVars, routerVars, pipelineVars, formatVars,
      adminVars, searchVars, extractVars,
      bootstrapVars,
      raceVars,
      saveVars,
      loadVars,
      endpointVars,
      configVars>>

\* The years in which a request is handled: a common year and a leap year, so
\* that the adjacent years a reference is moved to are reached across a
\* 29 February in both directions.
NowYears == {2023, 2024}

\* datetime's calendar is the proleptic Gregorian calendar.
IsLeap(year) == year % 4 = 0 /\ (year % 100 # 0 \/ year % 400 = 0)

DaysInMonth(year, month) ==
    IF month = 2 THEN (IF IsLeap(year) THEN 29 ELSE 28)
    ELSE IF month \in {4, 6, 9, 11} THEN 30 ELSE 31

\* date.toordinal(): the number of the day, 0001-01-01 being day 1.
ToOrdinal(date) ==
    LET y == date.year - 1
        before == <<0, 31, 59, 90, 120, 151, 181, 212, 243, 273, 304, 334>>
    IN  y * 365 + (y \div 4) - (y \div 100) + (y \div 400)
        + before[date.month] + (IF date.month > 2 /\ IsLeap(date.year) THEN 1 ELSE 0)
        + date.day

\* No date, and the exception a date that does not exist raises, as dates no
\* calendar has.
None == [year |-> 0, month |-> 0, day |-> 0]

ValueError == [year |-> 0, month |-> 0, day |-> 32]

\* dt(year, month, day).date(): raises ValueError for a day the month has not.
Date(year, month, day) ==
    IF month \in 1..12 /\ day \in 1..DaysInMonth(year, month)
    THEN [year |-> year, month |-> month, day |-> day]
    ELSE ValueError

\* (a - b).days
Days(a, b) == ToOrdinal(a) - ToOrdinal(b)

months ==
    [january |-> 1, jan |-> 1, february |-> 2, feb |-> 2, march |-> 3, mar |-> 3,
     april |-> 4, apr |-> 4, may |-> 5, june |-> 6, jun |-> 6, july |-> 7, jul |-> 7,
     august |-> 8, aug |-> 8, september |-> 9, sep |-> 9, sept |-> 9,
     october |-> 10, oct |-> 10, november |-> 11, nov |-> 11, december |-> 12, dec |-> 12]

\* A variant of the year rule that always keeps the current year.
CurrentYearDate(year, month, day, now) == Date(year, month, day)

\* The year rule for a reference without a year: the date in the current
\* year, moved to the previous year when that is more than 180 days ahead of
\* now and to the next year when it is more than 180 days behind.  Either
\* construction may raise ValueError.
DisambiguateYear(year, month, day, now) ==
    LET candidate_date == Date(year, month, day)
    IN  IF candidate_date = ValueError THEN ValueError
        ELSE LET days_diff == Days(candidate_date, now)
             IN  IF days_diff > 180 THEN Date(year - 1, month, day)
                 ELSE IF days_diff < -180 THEN Date(year + 1, month, day)
                 ELSE candidate_date

\* The numbers a \d{1,2} group is drawn from: no day, the days of a month at
\* its ends and around the twelfth, and a day no month has.
Digits == {0, 1, 2, 12, 13, 28, 29, 30, 31, 32}

\* The references without a year: "april 12th" / "12th april" as the month
\* name and the day matched, "4/12" / "4-12" as the two numbers matched.
MonthNameReferences == [form : {"month_name"}, name : DOMAIN months, day : Digits]

NumericReferences == [form : {"numeric"}, part1 : Digits, part2 : Digits]

\* _parse_specific_date on a reference without a year.  A month-name match
\* whose date raises is skipped, and no numeric pattern matches such a
\* reference; a numeric match tries (part1, part2) and then (part2, part1) as
\* (month, day), skipping an interpretation out of range or whose date raises.
ParseSpecificDate(temporal_ref, now) ==
    IF temporal_ref.form = "month_name"
    THEN LET candidate_date ==
                DisambiguateYear(now.year, months[temporal_ref.name], temporal_ref.day, now)
         IN  IF candidate_date = ValueError THEN None ELSE candidate_date
    ELSE LET Interpret(month, day) ==
                IF 1 <= month /\ month <= 12 /\ 1 <= day /\ day <= 31
                THEN DisambiguateYear(now.year, month, day, now)
                ELSE ValueError
             first == Interpret(temporal_ref.part1, temporal_ref.part2)
             second == Interpret(temporal_ref.part2, temporal_ref.part1)
         IN  IF first # ValueError THEN first
             ELSE IF second # ValueError THEN second
             ELSE None

NoParseCall == [ref |-> None, result |-> None]

DateInit ==
    /\ extractor_now = [year |-> 2023, month |-> 1, day |-> 1]
    /\ parse_call = NoParseCall

\* _parse_temporal_reference reads the clock and resolves the reference of the
\* request it handles.
ExtractorParseSpecificDate ==
    /\ parse_call = NoParseCall
    /\ \E temporal_ref \in MonthNameReferences \cup NumericReferences :
        parse_call' = [ref |-> temporal_ref,
                       result |-> ParseSpecificDate(temporal_ref, extractor_now)]
    /\ UNCHANGED extractor_now
    /\ UNCHANGED dateOthers

\* The next request is handled a day later.
ExtractorNextDay ==
    /\ LET tomorrow ==
            IF extractor_now.day < DaysInMonth(extractor_now.year, extractor_now.month)
            THEN [extractor_now EXCEPT !.day = @ + 1]
            ELSE IF extractor_now.month < 12
            THEN [extractor_now EXCEPT !.month = @ + 1, !.day = 1]
            ELSE [year |-> extractor_now.year + 1, month |-> 1, day |-> 1]
       IN  /\ tomorrow.year \in NowYears
           /\ extractor_now' = tomorrow
    /\ parse_call' = NoParseCall
    /\ UNCHANGED dateOthers

NextDate ==
    \/ ExtractorParseSpecificDate
    \/ ExtractorNextDay

Resolved == parse_call # NoParseCall /\ parse_call.result # None

\* C9 (as stated): a reference without a year, by month name and day or as
\* M/D, resolves to a date within 180 days of now.
C9_ResolvedWithin180Days ==
    Resolved =>
        /\ Days(parse_call.result, extractor_now) <= 180
        /\ Days(parse_call.result, extractor_now) >= -180

\* C9: a reference without a year, by month name and day or as M/D, that
\* resolves to a date resolves to one within 185 days of now.
C9_ResolvedWithin185Days ==
    Resolved =>
        /\ Days(parse_call.result, extractor_now) <= 185
        /\ Days(parse_call.result, extractor_now) >= -185

\* A reference moved to the previous year, 185 days behind now.
C9_Witness ==
    /\ Resolved
    /\ parse_call.result.year = extractor_now.year - 1
    /\ Days(parse_call.result, extractor_now) = -185

(***************************************************************************)
(* Ocean query system: formatting of a sensor-data result                  *)
(***************************************************************************)

formatOthers ==
    <<cacheVars, authVars, chatVars, apiVars, routerVars, pipelineVars, dateVars,
      adminVars, searchVars, extractVars,
      bootstrapVars,
      raceVars,
      saveVars,
      loadVars,
      endpointVars,
      configVars>>

\* A text is the sequence of its parts: the fixed phrases of the f-strings and
\* the values they interpolate.  "\n".join(lines) and f-string concatenation
\* are \o.
RECURSIVE Join(_)
Join(lines) == IF lines = <<>> THEN <<>> ELSE Head(lines) \o Join(Tail(lines))

Contains(text, part) == \E i \in DOMAIN text : text[i] = part

\* Sample times as the API returns them.  strftime('%B %d, %Y at %H:%M UTC')
\* drops the seconds, so the two display alike.
FormatTimeForDisplay(time_str) ==
    IF time_str \in {"2023-04-12T10:00:00.000Z", "2023-04-12T10:00:30.000Z"}
    THEN "April 12, 2023 at 10:00 UTC"
    ELSE time_str

\* The sensors of a scalar data response: without readings, with values but
\* no sample times, and with one or two readings.
Sensors ==
    { [sensorName |-> "Conductivity", unitOfMeasure |-> "S/m",
       data |-> [values |-> <<>>, sampleTimes |-> <<>>]],
      [sensorName |-> "Pressure", unitOfMeasure |-> "dbar",
       data |-> [values |-> <<"10.1">>, sampleTimes |-> <<>>]],
      [sensorName |-> "Temperature", unitOfMeasure |-> "C",
       data |-> [values |-> <<"4.2">>, sampleTimes |-> <<"2023-04-12T10:00:00.000Z">>]],
      [sensorName |-> "Salinity", unitOfMeasure |-> "PSU",
       data |-> [values |-> <<"28.9", "29.3">>,
                 sampleTimes |-> <<"2023-04-12T10:00:00.000Z", "2023-04-12T10:00:30.000Z">>]] }

MaxSensors == 2

SensorLists == UNION { [1..n -> Sensors] : n \in 1..MaxSensors }

\* raw_api_responses as search_data builds it, in insertion order: the devices
\* response is a dict, the scalar data requests are a list.
SearchDataResponses == << <<"devices_request", "dict">>, <<"scalar_data_requests", "list">> >>

Responses ==
    [status : {"success"}, data : SensorLists, raw_api_responses : {SearchDataResponses, <<>>}]
    \cup [status : {"error", "no_data"}, data : {<<>>}, raw_api_responses : {SearchDataResponses}]

\* ONCAPIClient.format_sensor_data: the latest reading of every sensor that
\* has values and sample times.
FormatSensorData(sensor_data) ==
    LET HasReadings(sensor) == sensor.data.values # <<>> /\ sensor.data.sampleTimes # <<>>
        with_readings == SelectSeq(sensor_data, HasReadings)
    IN  [i \in 1..Len(with_readings) |->
            [sensor_name |-> with_readings[i].sensorName,
             unit |-> with_readings[i].unitOfMeasure,
             latest_value |-> with_readings[i].data.values[Len(with_readings[i].data.values)],
             latest_time |->
                with_readings[i].data.sampleTimes[Len(with_readings[i].data.sampleTimes)],
             qaqc_status |-> "Check Required"]]

\* EnhancedResponseFormatter._create_technical_summary: a line per sensor with
\* its value, unit and quality, the query details, and a line per entry of
\* raw_api_responses, where call_info.get raises AttributeError on a list.
CreateTechnicalSummary(response, formatted_data) ==
    LET raw == response.raw_api_responses
    IN  [raised |-> \E i \in DOMAIN raw : raw[i][2] = "list",
         text |->
            <<"TECHNICAL SUMMARY", "Sensor Data:">>
            \o Join([i \in DOMAIN formatted_data |->
                        <<formatted_data[i].sensor_name, formatted_data[i].latest_value,
                          formatted_data[i].unit, formatted_data[i].qaqc_status, "quality">>])
            \o <<"Query Details:">>
            \o (IF raw = <<>> THEN <<>> ELSE <<"API Calls Made:">>)
            \o Join([i \in DOMAIN raw |-> <<raw[i][1], "Unknown URL">>])]

\* What llm_wrapper.invoke does with the prompt: it raises, or it returns an
\* interpretation without the numbers, or one that reports the first reading.
LlmResponses == {"raise", "interprets", "reports"}

\* EnhancedResponseFormatter._generate_natural_response, with
\* _create_fallback_response when the LLM raises.
GenerateNaturalResponse(formatted_data, llm) ==
    LET sensor == formatted_data[1]
        reading == <<sensor.latest_value, sensor.unit, "as of",
                     FormatTimeForDisplay(sensor.latest_time)>>
    IN  IF llm = "raise"
        THEN <<"Based on the ocean sensor data, the", "sea water temperature", "at",
               "Cambridge Bay (Ice Profiler)", "was">> \o reading
        ELSE IF llm = "reports" THEN <<"natural response">> \o reading
        ELSE <<"natural response">>

\* EnhancedResponseFormatter._format_success_response.  _extract_formatted_data
\* falls back to _create_basic_formatted_data, which reads data["times"] and
\* so finds no reading in a scalar data response.
FormatSuccessResponse(response, llm) ==
    LET formatted_data == FormatSensorData(response.data)
        technical_summary == CreateTechnicalSummary(response, formatted_data)
    IN  IF formatted_data = <<>>
        THEN <<"I found ocean data for", "sea water temperature", "at",
               "Cambridge Bay (Ice Profiler)",
               "but encountered a formatting issue while preparing the detailed response">>
        ELSE IF technical_summary.raised
        THEN <<"I successfully retrieved", "sea water temperature", "data from",
               "Cambridge Bay (Ice Profiler)",
               "but encountered a formatting issue while preparing the enhanced response">>
        ELSE GenerateNaturalResponse(formatted_data, llm) \o technical_summary.text

\* EnhancedResponseFormatter.format_enhanced_response
EnhancedFormat(response, llm) ==
    IF response.status = "error"
    THEN <<"I apologize, but I encountered an issue while retrieving the ocean data">>
    ELSE IF response.status = "no_data"
    THEN <<"I searched the Ocean Networks Canada database but couldn't find",
           "sea water temperature", "data for", "Cambridge Bay (Ice Profiler)">>
    ELSE IF response.data = <<>>
    THEN <<"I encountered an issue retrieving the data you requested.">>
    ELSE FormatSuccessResponse(response, llm)

\* OceanQuerySystem.format_response_for_display(response, show_api_calls=True)
FormatResponseForDisplay(response) ==
    LET formatted_data == FormatSensorData(response.data)
        raw == response.raw_api_responses
    IN  IF response.status = "error" THEN <<"ERROR:">>
        ELSE IF response.status = "no_data" THEN <<"NO DATA:", "QUERY DETAILS:">>
        ELSE IF response.data = <<>> THEN <<"WARNING:">>
        ELSE IF formatted_data = <<>> THEN <<"INFO: No sensor data found in response">>
        ELSE <<"RESULT: The latest", "seawatertemperature", "at", "Cambridge Bay", "was",
               formatted_data[1].latest_value, formatted_data[1].unit, "on",
               FormatTimeForDisplay(formatted_data[1].latest_time), "DATA RETRIEVED:">>
             \o Join([i \in DOMAIN formatted_data |->
                        <<formatted_data[i].sensor_name,
                          "Latest Value:", formatted_data[i].latest_value, formatted_data[i].unit,
                          "Time:", formatted_data[i].latest_time,
                          "QA/QC Status:", formatted_data[i].qaqc_status, "Total Readings:">>])
             \o <<"QUERY DETAILS:">>
             \o (IF raw = <<>> THEN <<>> ELSE <<"OCEAN NETWORKS CANADA API CALLS:">>)
             \o <<"OTHER DATA YOU CAN QUERY:">>

\* OceanQuerySystem.format_enhanced_response: the enhanced formatter when an
\* LLM wrapper was given, the display when the enhanced text reports an
\* unexpected error or no wrapper was given.
FormatEnhancedResponse(system, response, llm) ==
    IF system.enhanced_formatter
    THEN LET enhanced_response == EnhancedFormat(response, llm)
         IN  IF Contains(enhanced_response, "unexpected error while formatting")
             THEN FormatResponseForDisplay(response)
             ELSE enhanced_response
    ELSE FormatResponseForDisplay(response)

NoFormatCall == [called |-> FALSE, response |-> [status |-> "none"], llm |-> "none", text |-> <<>>]

FormatInit ==
    /\ ocean_query_system = [constructed |-> FALSE, enhanced_formatter |-> FALSE]
    /\ format_call = NoFormatCall

\* OceanQuerySystem.__init__(onc_token, llm_wrapper)
OceanQuerySystemInit(llm_wrapper) ==
    /\ ocean_query_system' = [constructed |-> TRUE, enhanced_formatter |-> llm_wrapper]
    /\ format_call' = NoFormatCall
    /\ UNCHANGED formatOthers

\* A call of format_enhanced_response on a result of process_query.
OceanFormatEnhancedResponse(response, llm) ==
    /\ ocean_query_system.constructed
    /\ format_call' = [called |-> TRUE, response |-> response,
                       llm |-> IF ocean_query_system.enhanced_formatter THEN llm ELSE "none",
                       text |-> FormatEnhancedResponse(ocean_query_system, response, llm)]
    /\ UNCHANGED ocean_query_system
    /\ UNCHANGED formatOthers

NextFormat ==
    \/ \E llm_wrapper \in BOOLEAN : OceanQuerySystemInit(llm_wrapper)
    \/ \E response \in Responses, llm \in LlmResponses :
        OceanFormatEnhancedResponse(response, llm)

\* The text names the latest reading of every sensor of the result that has
\* values and sample times: its value, its unit and its time, as returned or
\* as displayed.
NamesLatestReadings(text, response) ==
    LET formatted_data == FormatSensorData(response.data)
    IN  \A i \in DOMAIN formatted_data :
            /\ Contains(text, formatted_data[i].latest_value)
            /\ Contains(text, formatted_data[i].unit)
            /\ \/ Contains(text, formatted_data[i].latest_time)
               \/ Contains(text, FormatTimeForDisplay(formatted_data[i].latest_time))

\* C1: for a success result that carries raw_api_responses with a
\* devices_request and a scalar_data_requests list, the text of
\* format_enhanced_response contains the latest value, the unit and the latest
\* timestamp of every sensor that has values and sample times, with an LLM
\* wrapper and without one.
C1_TextNamesLatestReadings ==
    (/\ format_call.called
     /\ format_call.response.status = "success"
     /\ format_call.response.raw_api_responses = SearchDataResponses)
    => NamesLatestReadings(format_call.text, format_call.response)

\* Without an LLM wrapper the display names the latest readings.
DisplayNamesLatestReadings ==
    (/\ format_call.called
     /\ ~ocean_query_system.enhanced_formatter
     /\ format_call.response.status = "success")
    => NamesLatestReadings(format_call.text, format_call.response)

(***************************************************************************)
(* Parameter extractor: validation against the catalog                     *)
(***************************************************************************)

extractOthers ==
    <<cacheVars, authVars, chatVars, apiVars, routerVars, pipelineVars, dateVars, formatVars,
      adminVars, searchVars,
      bootstrapVars,
      raceVars,
      saveVars,
      loadVars,
      endpointVars,
      configVars>>

\* The elements of a list.
Elements(list) == {list[i] : i \in DOMAIN list}

\* A line of a section of the codes file, stripped: a name, or a branch
\* (a line that starts with one of the two tree marks) with the text after the mark.
Name(text) == [branch |-> FALSE, text |-> text]

Branch(text) == [branch |-> TRUE, text |-> text]

\* The texts of the branches that follow line i up to the next name, without the
\* placeholder when it is to be dropped.
RECURSIVE Branches(_, _, _)
Branches(lines, i, drop_placeholder) ==
    IF i > Len(lines) \/ ~lines[i].branch THEN <<>>
    ELSE (IF drop_placeholder /\ lines[i].text = "(No properties available)"
          THEN <<>> ELSE <<lines[i].text>>)
         \o Branches(lines, i + 1, drop_placeholder)

\* One loop of _load_onc_codes over the lines of a section: every name maps to the
\* branches that follow its last occurrence.
ParseSection(lines, drop_placeholder) ==
    LET names == {lines[i].text : i \in {j \in DOMAIN lines : ~lines[j].branch}}
        last(name) == CHOOSE i \in DOMAIN lines :
                          /\ lines[i] = Name(name)
                          /\ \A j \in DOMAIN lines : lines[j] = Name(name) => j <= i
    IN  [name \in names |-> Branches(lines, last(name) + 1, drop_placeholder)]

\* _setup_default_codes
DefaultCodes ==
    [location_devices |->
        [l \in {"CBYIP", "CBYSS.M1", "CBYSS.M2"} |->
            IF l = "CBYIP" THEN <<"CTD", "HYDROPHONE", "OXYSENSOR", "PHSENSOR">>
            ELSE <<"METSTN">>],
     device_properties |->
        [d \in {"CTD", "OXYSENSOR", "PHSENSOR", "METSTN", "ICEPROFILER", "HYDROPHONE"} |->
            CASE d = "CTD" -> <<"seawatertemperature", "salinity", "pressure", "depth",
                                "conductivity">>
              [] d = "OXYSENSOR" -> <<"oxygen", "seawatertemperature">>
              [] d = "PHSENSOR" -> <<"ph", "seawatertemperature">>
              [] d = "METSTN" -> <<"airtemperature", "windspeed", "humidity",
                                   "absolutebarometricpressure">>
              [] d = "ICEPROFILER" -> <<"soundpressurelevel", "seawatertemperature",
                                        "icedraft", "pingtime">>
              [] OTHER -> <<"amperage", "batterycharge", "voltage", "internaltemperature">>]]

\* The codes file: missing, or its two sections.  One file gives every device
\* properties; in the other a camera is listed with the placeholder for properties.
CodesFiles ==
    {[found |-> FALSE, locations |-> <<>>, properties |-> <<>>],
     [found |-> TRUE,
      locations |-> <<Name("CBYIP"), Branch("CTD"), Branch("ICEPROFILER"),
                      Name("CBYSS.M1"), Branch("METSTN")>>,
      properties |-> <<Name("CTD"), Branch("seawatertemperature"), Branch("salinity"),
                       Name("ICEPROFILER"), Branch("soundpressurelevel"),
                       Name("METSTN"), Branch("airtemperature"), Branch("windspeed")>>],
     [found |-> TRUE,
      locations |-> <<Name("CBYIP"), Branch("CTD"), Branch("VIDEOCAM"),
                      Name("CBYSS"), Branch("VIDEOCAM")>>,
      properties |-> <<Name("CTD"), Branch("seawatertemperature"), Branch("salinity"),
                       Name("VIDEOCAM"), Branch("(No properties available)")>>]}

\* _load_onc_codes
LoadOncCodes(file) ==
    IF ~file.found THEN DefaultCodes
    ELSE [location_devices |-> ParseSection(file.locations, FALSE),
          device_properties |-> ParseSection(file.properties, TRUE)]

\* self.location_aliases and self.parameter_aliases, in the order of the dictionaries
location_aliases ==
    <<<<"cambridge bay", "CBYIP">>, <<"iqaluktuuttiaq", "CBYIP">>,
      <<"cambridge bay ice", "CBYSP">>, <<"cambridge bay shore", "CBYSS">>,
      <<"cambridge bay met 1", "CBYSS.M1">>, <<"cambridge bay met 2", "CBYSS.M2">>,
      <<"cambridge bay weather", "CBYSS.M1">>>>

parameter_aliases ==
    <<<<"temp", "seawatertemperature">>, <<"temperature", "seawatertemperature">>,
      <<"water temp", "seawatertemperature">>, <<"sea temperature", "seawatertemperature">>,
      <<"how hot", "seawatertemperature">>, <<"how cold", "seawatertemperature">>,
      <<"how warm", "seawatertemperature">>, <<"salt", "salinity">>,
      <<"saltiness", "salinity">>, <<"salt content", "salinity">>, <<"o2", "oxygen">>,
      <<"dissolved oxygen", "oxygen">>, <<"oxygen content", "oxygen">>,
      <<"pressure", "pressure">>, <<"depth", "depth">>, <<"chlorophyll", "chlorophyll">>,
      <<"turbidity", "turbidityntu">>, <<"ph", "ph">>, <<"acidity", "ph">>,
      <<"conductivity", "conductivity">>, <<"air temp", "airtemperature">>,
      <<"air temperature", "airtemperature">>, <<"wind", "windspeed">>,
      <<"wind speed", "windspeed">>, <<"wind direction", "winddirection">>,
      <<"humidity", "relativehumidity">>,
      <<"pressure atmospheric", "absolutebarometricpressure">>,
      <<"barometric pressure", "absolutebarometricpressure">>,
      <<"ship noise", "soundpressurelevel">>, <<"acoustic", "soundpressurelevel">>,
      <<"underwater sound", "soundpressurelevel">>, <<"noise levels", "soundpressurelevel">>,
      <<"sound pressure", "soundpressurelevel">>, <<"ambient noise", "soundpressurelevel">>,
      <<"hydrophone data", "soundpressurelevel">>, <<"acoustic data", "soundpressurelevel">>,
      <<"sound", "soundpressurelevel">>, <<"underwater noise", "soundpressurelevel">>,
      <<"vessel noise", "soundpressurelevel">>, <<"marine noise", "soundpressurelevel">>>>

\* The queries, each with the aliases that are substrings of its lower-case text.
ExtractorQueries ==
    {[text |-> "show me the video", aliases |-> {}],
     [text |-> "water temp at cambridge bay shore",
      aliases |-> {"temp", "water temp", "cambridge bay", "cambridge bay shore"}],
     [text |-> "wind speed and air temperature at the weather station",
      aliases |-> {"temp", "temperature", "air temp", "air temperature", "wind",
                   "wind speed"}]}

\* The value of the first entry of an alias dictionary among the entries that
\* pass the test of the loop ("" when none does).
FirstAlias(aliases, passing) ==
    IF passing = {} THEN ""
    ELSE aliases[CHOOSE i \in passing : \A j \in passing : i <= j][2]

\* The membership tests need a list: the properties of a device the catalog may
\* not know.
PropertiesOf(codes, device) ==
    IF device \in DOMAIN codes.device_properties THEN codes.device_properties[device]
    ELSE <<>>

\* The tests of _find_device_for_property on the property code: "sound" in it, and
\* "temp" in it.
SoundProperty(property_code) == property_code \in {"soundpressurelevel", "Sound"}

TemperatureProperty(property_code) ==
    property_code \in {"seawatertemperature", "airtemperature", "internaltemperature",
                       "temperature"}

\* _find_device_for_property(property_code, available_devices)
FindDeviceForProperty(codes, property_code, available_devices) ==
    LET having == {i \in DOMAIN available_devices :
                      property_code \in Elements(PropertiesOf(codes, available_devices[i]))}
        devices == Elements(available_devices)
    IN  IF having # {}
        THEN available_devices[CHOOSE i \in having : \A j \in having : i <= j]
        ELSE IF SoundProperty(property_code) /\ "ICEPROFILER" \in devices THEN "ICEPROFILER"
        ELSE IF SoundProperty(property_code) /\ "HYDROPHONE" \in devices THEN "HYDROPHONE"
        ELSE IF TemperatureProperty(property_code) /\ "CTD" \in devices THEN "CTD"
        ELSE IF TemperatureProperty(property_code) /\ "METSTN" \in devices THEN "METSTN"
        ELSE IF available_devices # <<>> THEN available_devices[1]
        ELSE "CTD"

\* _validate_and_enhance(raw_params, original_query): the location, device and
\* property of the result, with the lists of its metadata.
ValidateAndEnhance(codes, raw_params, original_query) ==
    LET aliased ==
            FirstAlias(location_aliases,
                       {i \in DOMAIN location_aliases :
                           location_aliases[i][1] \in original_query.aliases})
        location_code ==
            IF raw_params.location_code \in DOMAIN codes.location_devices
            THEN raw_params.location_code
            ELSE IF aliased # "" THEN aliased
            ELSE "CBYIP"
        available_devices ==
            IF location_code \in DOMAIN codes.location_devices
            THEN codes.location_devices[location_code] ELSE <<>>
        current_device_properties == PropertiesOf(codes, raw_params.device_category)
        device_category ==
            IF \/ raw_params.device_category \notin Elements(available_devices)
               \/ raw_params.property_code \notin Elements(current_device_properties)
            THEN FindDeviceForProperty(codes, raw_params.property_code, available_devices)
            ELSE raw_params.device_category
        available_properties == PropertiesOf(codes, device_category)
        mapped_property ==
            FirstAlias(parameter_aliases,
                       {i \in DOMAIN parameter_aliases :
                           /\ parameter_aliases[i][1] \in original_query.aliases
                           /\ parameter_aliases[i][2] \in Elements(available_properties)})
        property_code ==
            IF raw_params.property_code \in Elements(available_properties)
            THEN raw_params.property_code
            ELSE IF mapped_property # "" THEN mapped_property
            ELSE IF available_properties # <<>> THEN available_properties[1]
            ELSE raw_params.property_code
    IN  [location_code |-> location_code, device_category |-> device_category,
         property_code |-> property_code, available_devices |-> available_devices,
         available_properties |-> available_properties]

\* The extractions of the LLM: a code is missing or empty (""), of the catalog, or
\* not of any catalog.
RawParams ==
    [location_code : {"", "CBYIP", "CBYSS", "CBYSS.M1", "ATLANTIS"},
     device_category : {"", "CTD", "VIDEOCAM", "SONAR"},
     property_code : {"", "seawatertemperature", "soundpressurelevel", "temperature"}]

NoExtractCall ==
    [called |-> FALSE, raw_params |-> [location_code |-> "", device_category |-> "",
                                       property_code |-> ""],
     query |-> "", parameters |-> [location_code |-> "", device_category |-> "",
                                   property_code |-> ""]]

ExtractInit ==
    /\ onc_codes = [loaded |-> FALSE, file_found |-> FALSE,
                    location_devices |-> <<>>, device_properties |-> <<>>]
    /\ extract_call = NoExtractCall

\* EnhancedParameterExtractor(): the catalog is loaded.
ExtractorConstruct(file) ==
    /\ LET codes == LoadOncCodes(file)
       IN  onc_codes' = [loaded |-> TRUE, file_found |-> file.found,
                         location_devices |-> codes.location_devices,
                         device_properties |-> codes.device_properties]
    /\ extract_call' = NoExtractCall
    /\ UNCHANGED extractOthers

\* extractor._validate_and_enhance(raw_params, original_query)
ExtractorValidateAndEnhance(raw_params, original_query) ==
    /\ onc_codes.loaded
    /\ LET result == ValidateAndEnhance(onc_codes, raw_params, original_query)
       IN  extract_call' = [called |-> TRUE, raw_params |-> raw_params,
                            query |-> original_query.text,
                            parameters |-> [location_code |-> result.location_code,
                                            device_category |-> result.device_category,
                                            property_code |-> result.property_code]]
    /\ UNCHANGED onc_codes
    /\ UNCHANGED extractOthers

NextExtract ==
    \/ \E file \in CodesFiles : ExtractorConstruct(file)
    \/ \E raw_params \in RawParams, original_query \in ExtractorQueries :
          ExtractorValidateAndEnhance(raw_params, original_query)

\* The triple is one of the catalog: a location of it, a device of that location,
\* a property of that device.
ValidTriple(parameters) ==
    /\ parameters.location_code \in DOMAIN onc_codes.location_devices
    /\ parameters.device_category
           \in Elements(onc_codes.location_devices[parameters.location_code])
    /\ parameters.property_code
           \in Elements(PropertiesOf(onc_codes, parameters.device_category))

\* C20: whatever the LLM extracted and whatever the query, the parameters
\* _validate_and_enhance returns are a location of the loaded catalog, a device of
\* that location and a property of that device.
C20_ParametersFormValidTriple ==
    extract_call.called => ValidTriple(extract_call.parameters)

\* What holds of the code: the triple is valid when the catalog has the default
\* location, every location of it lists a device, and every device listed has a
\* property (so with the default catalog).
ValidTripleWhenDevicesHaveProperties ==
    ( /\ extract_call.called
      /\ "CBYIP" \in DOMAIN onc_codes.location_devices
      /\ \A l \in DOMAIN onc_codes.location_devices :
            /\ onc_codes.location_devices[l] # <<>>
            /\ \A d \in Elements(onc_codes.location_devices[l]) :
                  PropertiesOf(onc_codes, d) # <<>> )
    => ValidTriple(extract_call.parameters)

(***************************************************************************)
(* POST /query and the pipeline subprocess                                 *)
(***************************************************************************)

endpointOthers ==
    <<cacheVars, authVars, chatVars, apiVars, routerVars, pipelineVars, dateVars, formatVars,
      adminVars, searchVars, extractVars, bootstrapVars, raceVars, saveVars, loadVars,
      configVars>>

\* How many requests the endpoint serves in one run.
MaxPosts == 3

\* How many prompts of the interactive loop are counted (the loop goes on after that).
MaxPrompts == 2

\* Texts are sequences of tokens; a blank and a newline are tokens of their own.
Whitespace == {" ", "\n"}

\* The separator the endpoint splits at: "Answer: "
AnswerSeparator == <<"Answer:", " ">>

\* The texts a client posts: a question, the empty string, and a question that
\* holds the separator.
QueryTextsPosted == {<<"hi">>, <<>>, <<"say", " ", "Answer:", " ", "x">>}

\* What ONCPipeline.query returns: a plain answer, one that ends with a newline,
\* one that holds the separator, and the empty string.
PipelineAnswers == {<<"a">>, <<"a", "\n">>, <<"The", " ", "Answer:", " ", "b">>, <<>>}

\* str.strip(): without the leading and trailing whitespace
Strip(text) ==
    LET solid == {i \in 1..Len(text) : text[i] \notin Whitespace}
    IN  IF solid = {} THEN <<>>
        ELSE SubSeq(text, CHOOSE i \in solid : \A j \in solid : i <= j,
                          CHOOSE i \in solid : \A j \in solid : j <= i)

\* Where the separator occurs in a text.
SeparatorAt(text) ==
    {i \in 1..(Len(text) - 1) : SubSeq(text, i, i + 1) = AnswerSeparator}

\* text.split("Answer: ", 1)[1]: what follows the first separator (IndexError
\* when the text holds none).
SplitAtAnswer(text) ==
    LET first == CHOOSE i \in SeparatorAt(text) : \A j \in SeparatorAt(text) : i <= j
    IN  SubSeq(text, first + 2, Len(text))

\* print(...): the text and a newline
PrintLine(text) == text \o <<"\n">>

NoBody == [kind |-> "none", response |-> <<>>, details |-> <<>>]

NoProcess ==
    [pc |-> "none", stdin |-> "eof", stdout |-> <<>>, stderr |-> <<>>, exit_code |-> -1,
     answered |-> FALSE, answer |-> <<>>, prompts |-> 0]

EndpointInit ==
    /\ request = [n |-> 0, pc |-> "none", text |-> <<>>, body |-> NoBody]
    /\ process = NoProcess

\* POST /query: subprocess.run starts the script with --query text; the child
\* inherits the server's standard input, which is at end-of-file or holds a line.
PostQuery(text, stdin) ==
    /\ request.pc \in {"none", "responded"}
    /\ request.n < MaxPosts
    /\ request' = [n |-> request.n + 1, pc |-> "waiting", text |-> text, body |-> NoBody]
    /\ process' = [NoProcess EXCEPT !.pc = "main", !.stdin = stdin]
    /\ UNCHANGED endpointOthers

\* main() up to the status lines: the environment check, the construction and
\* the setup of the pipeline, each of which ends the script with status 1 when
\* it fails.
MainSetup(ok) ==
    /\ process.pc = "main"
    /\ process' =
          IF ok
          THEN [process EXCEPT !.pc = "ready",
                               !.stdout = PrintLine(<<"Initializing">>)
                                             \o PrintLine(<<"\n", "Pipeline", " ", "Status:">>)]
          ELSE [process EXCEPT !.pc = "exited", !.exit_code = 1,
                               !.stdout = PrintLine(<<"Pipeline", " ", "setup", " ", "failed">>),
                               !.stderr = PrintLine(<<"ERROR">>)]
    /\ UNCHANGED request
    /\ UNCHANGED endpointOthers

\* main(), if args.query: the single query, its answer printed, status 0
MainQuery(answer) ==
    /\ process.pc = "ready"
    /\ request.text # <<>>
    /\ process' = [process EXCEPT
                      !.pc = "exited", !.exit_code = 0,
                      !.answered = TRUE, !.answer = answer,
                      !.stdout = @ \o PrintLine(<<"\n", "Processing", " ", "query:", " ">>
                                                  \o request.text)
                                   \o PrintLine(<<"\n">> \o AnswerSeparator \o answer)]
    /\ UNCHANGED request
    /\ UNCHANGED endpointOthers

\* main(), else: an empty --query is false, so the script enters interactive_mode
MainInteractive ==
    /\ process.pc = "ready"
    /\ request.text = <<>>
    /\ process' = [process EXCEPT !.pc = "interactive",
                                  !.stdout = @ \o PrintLine(<<"ONC", " ", "Assistant">>)]
    /\ UNCHANGED request
    /\ UNCHANGED endpointOthers

\* interactive_mode, the try block of one round of its loop: input() raises
\* EOFError at end-of-file; a line that says quit (or is empty) leaves the loop
\* and the script ends with status 0.
InteractiveInput ==
    /\ process.pc = "interactive"
    /\ process' =
          IF process.stdin = "eof"
          THEN [process EXCEPT !.pc = "handling", !.prompts = Min(@ + 1, MaxPrompts)]
          ELSE [process EXCEPT !.pc = "exited", !.exit_code = 0,
                               !.stdout = @ \o PrintLine(<<"\n", "Thank", " ", "you">>)]
    /\ UNCHANGED request
    /\ UNCHANGED endpointOthers

\* interactive_mode, except Exception: the error is reported and the loop
\* starts its next round (the report is left out of the recorded output).
InteractiveHandleException ==
    /\ process.pc = "handling"
    /\ process' = [process EXCEPT !.pc = "interactive"]
    /\ UNCHANGED request
    /\ UNCHANGED endpointOthers

\* query(), after subprocess.run has returned: the body for a zero status, the
\* error body for CalledProcessError, and the server's 500 for the IndexError
\* that no handler catches.
QueryRespond ==
    /\ request.pc = "waiting"
    /\ process.pc = "exited"
    /\ LET response == Strip(process.stdout)
       IN  request' = [request EXCEPT
               !.pc = "responded",
               !.body =
                   IF process.exit_code # 0
                   THEN [kind |-> "error", response |-> <<>>,
                         details |-> Strip(process.stderr)]
                   ELSE IF SeparatorAt(response) = {}
                   THEN [kind |-> "unhandled_exception", response |-> <<>>, details |-> <<>>]
                   ELSE [kind |-> "response", response |-> SplitAtAnswer(response),
                         details |-> <<>>]]
    /\ UNCHANGED process
    /\ UNCHANGED endpointOthers

ProcessStep ==
    \/ \E ok \in BOOLEAN : MainSetup(ok)
    \/ \E answer \in PipelineAnswers : MainQuery(answer)
    \/ MainInteractive
    \/ InteractiveInput
    \/ InteractiveHandleException

NextEndpoint ==
    \/ \E text \in QueryTextsPosted, stdin \in {"eof", "line"} : PostQuery(text, stdin)
    \/ ProcessStep
    \/ QueryRespond

\* C28: with the subprocess's standard input at end-of-file, every POST /query
\* request eventually produces a response, for every text including the empty
\* string.
C28_EveryQueryIsAnswered ==
    (request.pc = "waiting" /\ process.stdin = "eof") ~> (request.pc = "responded")

\* What holds of the code: every request with a non-empty text is answered.
EveryNonEmptyQueryIsAnswered ==
    (request.pc = "waiting" /\ request.text # <<>>) ~> (request.pc = "responded")

\* C29: when the subprocess exits with status 0 the response field equals
\* exactly the answer ONCPipeline.query returned, also for a text that holds
\* "Answer: "; every zero-exit run yields a {response} body and every non-zero
\* exit an {error, details} body.
C29_ResponseIsTheAnswer ==
    request.pc = "responded" =>
        IF process.exit_code = 0
        THEN /\ request.body.kind = "response"
             /\ process.answered
             /\ request.body.response = process.answer
        ELSE request.body.kind = "error"

\* What holds of the code: a non-zero exit yields the error body; a zero exit of
\* a question that holds no separator yields the answer without its surrounding
\* whitespace, unless the answer is empty.
ResponseIsTheStrippedAnswer ==
    request.pc = "responded" =>
        IF process.exit_code # 0 THEN request.body.kind = "error"
        ELSE (/\ process.answered
              /\ SeparatorAt(request.text) = {}
              /\ Strip(process.answer) # <<>>)
                 => /\ request.body.kind = "response"
                    /\ request.body.response = Strip(process.answer)

(***************************************************************************)
(* Specifications                                                          *)
(***************************************************************************)

\* Every subsystem starts in its constructed state.
Init ==
    /\ CacheInit /\ AuthInit /\ ChatInit /\ ApiInit /\ RouterInit /\ PipelineInit
    /\ DateInit /\ FormatInit /\ AdminInit
    /\ SearchInit /\ ExtractInit /\ BootstrapInit /\ RaceInit /\ SaveInit /\ LoadInit /\ EndpointInit /\ ConfigInit

SpecCache == Init /\ [][NextCache]_vars

SpecSave == Init /\ [][NextSave]_vars

SpecAuth == Init /\ [][NextAuth]_vars

SpecAdmin == Init /\ [][NextAdmin]_vars

SpecBootstrap == Init /\ [][NextBootstrap]_vars

SpecChat == Init /\ [][NextChat]_vars

SpecRating == Init /\ [][NextRating]_vars

SpecOwnership == Init /\ [][NextOwnership]_vars

SpecRace == Init /\ [][NextRace]_vars

SpecApi == Init /\ [][NextApi]_vars

SpecSearch == Init /\ [][NextSearch]_vars

SpecRouter == Init /\ [][NextRouter]_vars

SpecEnhance == Init /\ [][NextEnhance]_vars

SpecPipeline == Init /\ [][NextPipeline]_vars

SpecConfig == Init /\ [][NextConfig]_vars

SpecQuery == Init /\ [][NextQuery]_vars

SpecReady == Init /\ [][NextReady]_vars

SpecConversation == Init /\ [][NextConversation]_vars

SpecLoad == Init /\ [][NextLoad]_vars

SpecDate == Init /\ [][NextDate]_vars

SpecFormat == Init /\ [][NextFormat]_vars

SpecExtract == Init /\ [][NextExtract]_vars

SpecEndpoint == Init /\ [][NextEndpoint]_vars

\* The subprocess runs on its own and the handler resumes when it has exited:
\* every step of either that stays possible is eventually taken.
SpecEndpointFair ==
    Init /\ [][NextEndpoint]_vars /\ WF_vars(ProcessStep) /\ WF_vars(QueryRespond)

====
